---- MODULE Spec2Model ----
(***************************************************************************)
(* Session and stream orchestration layer of realtime_painting:            *)
(*   app/connection_manager.py   ConnectionManager (per-session queues)     *)
(*   app/api/session_base.py     SessionAPI (protocol handler, stream)      *)
(*   app/services/session_service.py  SessionService (engine lifecycle)     *)
(*                                                                         *)
(* The program runs on one asyncio event loop: an action is the code a     *)
(* task runs between two suspension points (an await that really yields).  *)
(***************************************************************************)
EXTENDS Naturals, Integers, Sequences, FiniteSets, TLC

\* ------------------------------------------------------------------ bounds
MaxEnq == 3          \* update_data calls per registered session
MaxConns == 2        \* websocket handles opened by clients
MaxIds == 2          \* distinct session ids in use
MaxK == 1            \* largest configured max_queue_size (maxSessions)
MaxEngines == 2      \* engine constructions per run
MaxClients == 1      \* clients of a service whose engine is reloaded or fed frames
MaxPayload == 2      \* bytes of the binary payload of a message
MaxOverrides == 1    \* keys in the overrides of one reload call
MaxClock == 3        \* ticks of the event loop clock

Conns == 1..MaxConns
Ids == 1..MaxIds
Mgrs == 1..MaxEngines          \* one ConnectionManager is built per init_api
Clients == 1..MaxClients       \* handles of clients that connect under their own id
Gens == {"g1", "g2"}            \* tasks calling get_latest_data
Deleters == {"d1"}              \* tasks serving DELETE /sessions/{id}
Callers == {1, 2}               \* tasks calling the SessionService operations

None == 0                       \* Python None as a queue item / return value
NoDepth == 0                    \* max_queue_depth = None
NoConn == 0                     \* get_websocket returning None
NoMgr == 0                      \* SessionAPI._conn_manager = None
NoId == 0
NoOwner == 0                    \* asyncio.Lock not held

VARIABLES
    drain_strategy,      \* ConnectionManager._drain_strategy
    max_queue_depth,     \* ConnectionManager._max_queue_depth (NoDepth = None)
    max_queue_size,      \* config["max_queue_size"], passed to connect
    active_connections,  \* per manager: session id -> [websocket, queue, getters, qid]
    next_qid,            \* identity of the next asyncio.Queue object
    ws,                  \* per handle: starlette client_state / application_state
    sent,                \* per handle: status messages sent to the client
    handler,             \* per handle: the websocket_handler task
    gen,                 \* per consumer: the task inside get_latest_data
    deleter,             \* per deleter: the task inside delete_session
    conn_manager,        \* SessionAPI._conn_manager
    hist,                \* per id, history: items enqueued / delivered, last queue op
    lastGet,             \* history: the most recent completed get_latest_data call
    state,               \* SessionService._state (pipeline, initialized)
    api_pipeline,        \* SessionAPI._pipeline
    engine,              \* per engine handle: built, and the resources it still holds
    lock,                \* SessionService._lock: owner and waiting tasks
    caller,              \* per caller: the task inside a SessionService operation
    teardowns,           \* history: teardowns begun by shutdown / reload
    lastCall,            \* history: the most recent SessionService call that returned
    wire,                \* one receive_message call: the message framed, the result decoded
    rx,                  \* per handle: the client's messages in flight and the locals of the loop
    clock,               \* asyncio.get_event_loop().time()
    timeout,             \* config["timeout"]
    input_mode,          \* self._pipeline.Info().input_mode
    config,              \* SessionService._config, the base configuration
    persistent_overrides,\* SessionService._persistent_overrides
    raises               \* the calls of the environment that may still raise in this run

svcVars == <<state, api_pipeline, engine, lock, caller, teardowns, lastCall,
             config, persistent_overrides, raises>>
wireVars == <<wire, rx, clock, timeout, input_mode>>

vars == <<drain_strategy, max_queue_depth, max_queue_size, active_connections,
          next_qid, ws, sent, handler, gen, deleter, conn_manager, hist, lastGet,
          state, api_pipeline, engine, lock, caller, teardowns, lastCall,
          wire, rx, clock, timeout, input_mode, config, persistent_overrides, raises>>

\* ------------------------------------------------------ finite-map helpers
EmptyMap == [j \in {} |-> 0]
MapPut(f, k, v) == [j \in (DOMAIN f) \cup {k} |-> IF j = k THEN v ELSE f[j]]
MapPop(f, k) == [j \in (DOMAIN f) \ {k} |-> f[j]]
Last(s) == s[Len(s)]
Min(a, b) == IF a < b THEN a ELSE b
Max(a, b) == IF a > b THEN a ELSE b

\* ------------------------------------------------ ConnectionManager: reads
Sessions(m) == DOMAIN active_connections[m]

check_user(m, i) == i \in Sessions(m)

\* active_connections.get(user_id): the session record, or nothing (None) for an
\* id that is not registered; the dict is not changed.
setdefault(conns, i) ==
    IF i \in DOMAIN conns
    THEN {conns[i]}
    ELSE {[websocket |-> NoConn, queue |-> <<>>, getters |-> <<>>, qid |-> 0, ord |-> 0]}
get(conns, i) == IF i \in DOMAIN conns THEN {conns[i]} ELSE {}

get_user_count(m) == Cardinality(Sessions(m))

\* The handle of session i if its client_state is CONNECTED, else None.
SocketOf(conns, i) ==
    IF i \in DOMAIN conns /\ ws[conns[i].websocket].client_state = "CONNECTED"
    THEN conns[i].websocket
    ELSE NoConn

get_websocket(m, i) == SocketOf(active_connections[m], i)

should_block_for_data == drain_strategy = "all"

\* ------------------------------------------------ initial values of tasks
IdleHandler == [pc |-> "idle", id |-> NoId, m |-> NoMgr, K |-> 0, dm |-> NoMgr]
\* loop is the position of a streaming generator in generate(); a direct caller
\* of get_latest_data has none.
NoLoop == [at |-> "none", sid |-> NoId, wait |-> FALSE, frame |-> "none", err |-> "none",
           e |-> None]
IdleGen == [pc |-> "idle", id |-> NoId, m |-> NoMgr, q |-> 0, ret |-> None, expect |-> None,
            loop |-> NoLoop]
IdleDeleter == [pc |-> "idle", id |-> NoId, m |-> NoMgr]
NewSocket == [client_state |-> "CONNECTING", application_state |-> "CONNECTING"]
FreshHist == [enq |-> 0, deq |-> 0, last |-> "none", fed |-> <<>>]
IdleRx == [at |-> "top", inbox |-> <<>>, data |-> EmptyMap, image |-> <<>>, objs |-> <<>>,
           ev |-> "none", last_time |-> 0, last_in |-> 0, gap |-> 0]
NoWire == [at |-> "none", n |-> 0, form |-> "none", status |-> "", params |-> EmptyMap, payload |-> <<>>,
           message |-> [type |-> "none", body |-> <<>>],
           data |-> [t |-> "obj", s |-> "", o |-> EmptyMap], image |-> <<>>]
NoGet == [id |-> NoId, wait |-> FALSE, live |-> FALSE, prev |-> "none", empty |-> TRUE,
          n |-> 0, k |-> 0, ret |-> None]


\* --------------------------------------------- ConnectionManager: connect
\* connect's capacity test: max_queue_size > 0 and user_count >= max_queue_size.
ServerFullOffByOne(K, count) == K > 0 /\ count > K
ServerFull(K, count) == K > 0 /\ count >= K

\* The session record connect stores: the handle and a fresh asyncio.Queue().
\* ord is the key's position in the dict: a key that is assigned again keeps it.
NewSession(m, i, w) ==
    [websocket |-> w, queue |-> <<>>, getters |-> <<>>, qid |-> next_qid,
     ord |-> IF i \in Sessions(m) THEN active_connections[m][i].ord ELSE next_qid]

\* The status messages connect sends after it registered the session.
WaitFirst == <<"wait", "connected", "send_frame">>
Handshake == <<"connected", "wait", "send_frame">>

\* websocket_handler up to the first suspension: with no manager it closes the
\* handle (503) and returns; otherwise it calls connect, which awaits accept().
Accept(w, i) ==
    /\ handler[w].pc = "idle"
    /\ IF conn_manager = NoMgr
       THEN /\ handler' = [handler EXCEPT ![w] = [IdleHandler EXCEPT !.pc = "done", !.id = i]]
            /\ ws' = [ws EXCEPT ![w] = [client_state |-> "CONNECTING",
                                        application_state |-> "DISCONNECTED"]]
       ELSE /\ handler' = [handler EXCEPT ![w] =
                   [IdleHandler EXCEPT !.pc = "accepting", !.id = i, !.m = conn_manager,
                                       !.K = max_queue_size]]
            /\ ws' = [ws EXCEPT ![w] = [client_state |-> "CONNECTED",
                                        application_state |-> "CONNECTED"]]
    /\ UNCHANGED <<svcVars, wireVars, drain_strategy, max_queue_depth, max_queue_size, active_connections,
                   next_qid, sent, gen, deleter, conn_manager, hist, lastGet>>

\* connect after accept(): the capacity test and the registration run without a
\* suspension in between; a full server sends error, closes and raises
\* ServerFullException, which websocket_handler logs before its finally clause.
\* An accepted connect sends connected, wait, send_frame and returns.
Connect(w) ==
    /\ handler[w].pc = "accepting"
    /\ LET m == handler[w].m
           i == handler[w].id
       IN IF ServerFull(handler[w].K, get_user_count(m))
          THEN /\ sent' = [sent EXCEPT ![w] = Append(@, "error")]
               /\ ws' = [ws EXCEPT ![w].application_state = "DISCONNECTED"]
               /\ handler' = [handler EXCEPT ![w].pc = "finally"]
               /\ UNCHANGED <<active_connections, next_qid, hist>>
          ELSE /\ active_connections' =
                      [active_connections EXCEPT ![m] = MapPut(@, i, NewSession(m, i, w))]
               /\ next_qid' = next_qid + 1
               /\ sent' = [sent EXCEPT ![w] = @ \o Handshake]
               /\ handler' = [handler EXCEPT ![w].pc = "handshake"]
               /\ hist' = [hist EXCEPT ![i] = FreshHist]
               /\ UNCHANGED ws
    /\ UNCHANGED <<svcVars, wireVars, drain_strategy, max_queue_depth, max_queue_size, gen, deleter,
                   conn_manager, lastGet>>

\* ----------------------------------------- ConnectionManager: update_data
\* The manual eviction before put: overflow = qsize - max_queue_depth + 1 oldest
\* items are removed with get_nowait, whatever the drain strategy.
KeepsAll(items) == items
Evict(items) ==
    IF max_queue_depth = NoDepth THEN items
    ELSE LET overflow == Len(items) - max_queue_depth + 1
         IN IF overflow > 0
            THEN SubSeq(items, Min(overflow, Len(items)) + 1, Len(items))
            ELSE items

\* update_data: a no-op for an unregistered id; otherwise evict, then
\* queue.put(item) on the unbounded asyncio.Queue, which never suspends and wakes
\* the first task blocked in queue.get().
update_data(m, i, item) ==
    IF get(active_connections[m], i) # {}
    THEN LET s == CHOOSE x \in get(active_connections[m], i) : TRUE
             first == IF s.getters = <<>> THEN {} ELSE {Head(s.getters)}
         IN /\ active_connections' = [active_connections EXCEPT ![m] = MapPut(@, i,
                   [s EXCEPT !.queue = Append(Evict(s.queue), item),
                             !.getters = IF s.getters = <<>> THEN <<>> ELSE Tail(s.getters)])]
            /\ gen' = [g \in Gens |->
                   IF g \in first
                   THEN [gen[g] EXCEPT !.pc = "woken",
                                       !.expect = IF @ = None THEN item ELSE @]
                   ELSE gen[g]]
    ELSE UNCHANGED <<active_connections, gen>>

\* A direct update_data call on the active manager (the k-th call on a session
\* enqueues item k).
UpdateData(i) ==
    /\ conn_manager # NoMgr
    /\ hist[i].enq < MaxEnq
    /\ update_data(conn_manager, i, hist[i].enq + 1)
    /\ hist' = IF i \in Sessions(conn_manager)
               THEN [hist EXCEPT ![i].enq = @ + 1, ![i].last = "enq"]
               ELSE hist
    /\ UNCHANGED <<svcVars, wireVars, drain_strategy, max_queue_depth, max_queue_size, next_qid, ws, sent,
                   handler, deleter, conn_manager, lastGet>>

\* ------------------------------------- ConnectionManager: get_latest_data
\* queue.get_nowait() and the end of queue.get(): the head leaves the queue.
peek(items) == items
get_nowait(items) == Tail(items)

\* What the `latest` branch returns from a non-empty queue: its loop overwrites
\* latest_data with every get_nowait, so the last item queued survives.
DrainOldest(items) == Head(items)
DrainLatest(items) == Last(items)

\* A generator whose get_latest_data call returns has its params.
Returned(loop) == IF loop.at = "sent" THEN [loop EXCEPT !.at = "got"] ELSE loop

\* The return of a get_latest_data call: the task is idle again and the call is
\* recorded in the history.
Return(g, i, wait, live, empty, r) ==
    /\ gen' = [gen EXCEPT ![g] =
           [IdleGen EXCEPT !.ret = r,
                           !.expect = IF gen[g].pc = "woken" THEN gen[g].expect ELSE None,
                           !.loop = Returned(gen[g].loop)]]
    /\ hist' = IF live
               THEN [hist EXCEPT ![i].deq = IF r = None THEN @ ELSE @ + 1,
                                 ![i].last = IF wait THEN "get_wait" ELSE "get_nowait"]
               ELSE hist
    /\ lastGet' = [id |-> i, wait |-> wait, live |-> live, prev |-> hist[i].last,
                   empty |-> empty,
                   n |-> hist[i].enq,
                   k |-> IF r = None THEN hist[i].deq ELSE hist[i].deq + 1,
                   ret |-> r]

\* The task suspends in `await queue.get()` on the queue object it found.
Block(g, m, i) ==
    /\ active_connections' = [active_connections EXCEPT ![m][i].getters = Append(@, g)]
    /\ gen' = [gen EXCEPT ![g] = [pc |-> "blocked", id |-> i, m |-> m,
                                  q |-> active_connections[m][i].qid,
                                  ret |-> None, expect |-> None, loop |-> gen[g].loop]]
    /\ UNCHANGED <<hist, lastGet>>

\* get_latest_data(user_id, wait=wait) on the active manager, up to its return
\* or its suspension in queue.get().
GetLatestData(g, i, wait) ==
    /\ gen[g].pc = "idle"
    /\ conn_manager # NoMgr
    /\ LET m == conn_manager
       IN IF i \notin Sessions(m)
          THEN Return(g, i, wait, FALSE, TRUE, None) /\ UNCHANGED active_connections
          ELSE LET items == active_connections[m][i].queue
               IN IF drain_strategy = "latest"
                  THEN IF items # <<>>
                       THEN /\ active_connections' =
                                   [active_connections EXCEPT ![m][i].queue = <<>>]
                            /\ Return(g, i, wait, TRUE, FALSE, DrainLatest(items))
                       ELSE IF wait
                            THEN Block(g, m, i)
                            ELSE Return(g, i, wait, TRUE, TRUE, None)
                                 /\ UNCHANGED active_connections
                  ELSE IF items # <<>>
                       THEN /\ active_connections' =
                                   [active_connections EXCEPT ![m][i].queue = get_nowait(items)]
                            /\ Return(g, i, wait, TRUE, FALSE, Head(items))
                       ELSE IF wait
                            THEN Block(g, m, i)
                            ELSE Return(g, i, wait, TRUE, TRUE, None)
                                 /\ UNCHANGED active_connections
    /\ UNCHANGED <<svcVars, wireVars, drain_strategy, max_queue_depth, max_queue_size, next_qid, ws, sent,
                   handler, deleter, conn_manager>>

\* A task woken by put resumes inside asyncio's Queue.get: while the queue is
\* empty it waits again, otherwise it takes the head. A queue whose session was
\* deleted is no longer reachable from the manager: it was drained by
\* delete_user and nothing is ever put on it again.
Resume(g) ==
    /\ gen[g].pc = "woken"
    /\ LET m == gen[g].m
           i == gen[g].id
           live == i \in Sessions(m) /\ active_connections[m][i].qid = gen[g].q
       IN IF ~live
          THEN /\ gen' = [gen EXCEPT ![g].pc = "blocked"]
               /\ UNCHANGED <<active_connections, hist, lastGet>>
          ELSE LET items == active_connections[m][i].queue
               IN IF items = <<>>
                  THEN /\ active_connections' =
                              [active_connections EXCEPT ![m][i].getters = Append(@, g)]
                       /\ gen' = [gen EXCEPT ![g].pc = "blocked"]
                       /\ UNCHANGED <<hist, lastGet>>
                  ELSE /\ active_connections' =
                              [active_connections EXCEPT ![m][i].queue = get_nowait(items)]
                       /\ Return(g, i, TRUE, TRUE, FALSE, Head(items))
    /\ UNCHANGED <<svcVars, wireVars, drain_strategy, max_queue_depth, max_queue_size, next_qid, ws, sent,
                   handler, deleter, conn_manager>>

\* ------------------------------------------- ConnectionManager: disconnect
\* delete_user: pop the session; its queue is drained and dropped.
delete_all(m, i) ==
    active_connections' = [active_connections EXCEPT ![m] = EmptyMap]
delete_user(m, i) ==
    active_connections' = [active_connections EXCEPT ![m] = MapPop(@, i)]

\* disconnect suspends in websocket.close() when get_websocket finds the handle.
Closes(m, i) ==
    /\ get_websocket(m, i) # NoConn
    /\ ws[get_websocket(m, i)].application_state = "CONNECTED"

\* starlette raises RuntimeError for a close after a close was already sent.
CloseRaises(m, i) ==
    /\ get_websocket(m, i) # NoConn
    /\ ws[get_websocket(m, i)].application_state # "CONNECTED"

\* disconnect up to its suspension in close(), its exception, or its return.
disconnect_begin(m, i) ==
    IF Closes(m, i)
    THEN /\ ws' = [ws EXCEPT ![get_websocket(m, i)].application_state = "DISCONNECTED"]
         /\ UNCHANGED active_connections
    ELSE IF CloseRaises(m, i)
         THEN UNCHANGED <<active_connections, ws>>
         ELSE delete_user(m, i) /\ UNCHANGED ws

\* delete_session: 503 without a manager, else await disconnect(session_id).
DeleteSession(d, i) ==
    /\ deleter[d].pc = "idle"
    /\ conn_manager # NoMgr
    /\ disconnect_begin(conn_manager, i)
    /\ deleter' = [deleter EXCEPT ![d] =
           IF Closes(conn_manager, i)
           THEN [pc |-> "closing", id |-> i, m |-> conn_manager]
           ELSE IdleDeleter]
    /\ UNCHANGED <<svcVars, wireVars, drain_strategy, max_queue_depth, max_queue_size, next_qid, sent,
                   handler, gen, conn_manager, hist, lastGet>>

\* disconnect after close(): delete_user.
DeleteFinish(d) ==
    /\ deleter[d].pc = "closing"
    /\ delete_user(deleter[d].m, deleter[d].id)
    /\ deleter' = [deleter EXCEPT ![d] = IdleDeleter]
    /\ UNCHANGED <<svcVars, wireVars, drain_strategy, max_queue_depth, max_queue_size, next_qid, ws, sent,
                   handler, gen, conn_manager, hist, lastGet>>

\* --------------------------------------------- SessionAPI: handler task
\* _handle_websocket_loop's entry test, after connect returned: without a
\* manager, or with the session no longer registered, it returns at once.
EnterLoop(w) ==
    /\ handler[w].pc = "handshake"
    /\ handler' = [handler EXCEPT ![w].pc =
           IF conn_manager = NoMgr \/ ~check_user(conn_manager, handler[w].id)
           THEN "finally" ELSE "loop"]
    /\ rx' = [rx EXCEPT ![w].last_time = clock, ![w].last_in = clock]
    /\ UNCHANGED <<svcVars, wire, clock, timeout, input_mode, drain_strategy, max_queue_depth, max_queue_size, active_connections,
                   next_qid, ws, sent, gen, deleter, conn_manager, hist, lastGet>>

\* A disconnect(session_id) call of the handler on self._conn_manager, up to its
\* suspension in close(): with no manager the call raises AttributeError, which
\* both call sites swallow, as they do the RuntimeError of a second close.
HandlerDisconnect(w, from, closing, next) ==
    /\ handler[w].pc = from
    /\ IF conn_manager = NoMgr
       THEN /\ handler' = [handler EXCEPT ![w].pc = next]
            /\ UNCHANGED <<active_connections, ws>>
       ELSE /\ disconnect_begin(conn_manager, handler[w].id)
            /\ handler' = [handler EXCEPT ![w].pc =
                   IF Closes(conn_manager, handler[w].id) THEN closing ELSE next,
                                          ![w].dm = conn_manager]
    /\ UNCHANGED <<svcVars, wireVars, drain_strategy, max_queue_depth, max_queue_size, next_qid, sent, gen,
                   deleter, conn_manager, hist, lastGet>>

\* The same call after close() returned: delete_user on the manager it was
\* called on.
HandlerDisconnectFinish(w, closing, next) ==
    /\ handler[w].pc = closing
    /\ delete_user(handler[w].dm, handler[w].id)
    /\ handler' = [handler EXCEPT ![w].pc = next]
    /\ UNCHANGED <<svcVars, wireVars, drain_strategy, max_queue_depth, max_queue_size, next_qid, ws, sent,
                   gen, deleter, conn_manager, hist, lastGet>>

\* An exception inside the receive loop: logged, disconnect, return.
LoopFault(w) == HandlerDisconnect(w, "loop", "fault_closing", "finally")
LoopFaultFinish(w) == HandlerDisconnectFinish(w, "fault_closing", "finally")

\* websocket_handler's finally clause: disconnect(session_id).
Finally(w) == HandlerDisconnect(w, "finally", "final_closing", "done")
FinallyFinish(w) == HandlerDisconnectFinish(w, "final_closing", "done")

\* ------------------------------------------- SessionAPI: receive loop body
\* The attributes the ConnectionManager class defines.
ManagerMethods ==
    {"connect", "check_user", "update_data", "should_block_for_data", "get_latest_data",
     "delete_user", "get_user_count", "get_websocket", "disconnect", "send_json",
     "receive_json", "receive_bytes", "receive_message"}

\* receive_message hands the loop a message of the session's client: the
\* session is registered and its handle open.
Receives(w) ==
    /\ handler[w].pc = "loop"
    /\ conn_manager # NoMgr
    /\ get_websocket(conn_manager, handler[w].id) # NoConn
    /\ ws[get_websocket(conn_manager, handler[w].id)].application_state = "CONNECTED"

\* A next_frame message with parameters and image: without a pipeline the loop
\* sleeps and continues; otherwise the parameter object is built and enqueued
\* with update_data, and the loop continues.
NextFrame(w) ==
    /\ Receives(w)
    /\ hist[handler[w].id].enq < MaxEnq
    /\ IF api_pipeline = None
       THEN UNCHANGED <<active_connections, gen, hist>>
       ELSE /\ update_data(conn_manager, handler[w].id, hist[handler[w].id].enq + 1)
            /\ hist' = [hist EXCEPT ![handler[w].id].enq = @ + 1,
                                    ![handler[w].id].last = "enq"]
    /\ UNCHANGED <<svcVars, wireVars, drain_strategy, max_queue_depth, max_queue_size, next_qid, ws,
                   sent, handler, deleter, conn_manager, lastGet>>

\* The loop `while not queue.empty(): queue.get_nowait()`: what is left after
\* as many get_nowait calls as there are items.
untouched(items) == items
drain(items) == SubSeq(items, Len(items) + 1, Len(items))

\* A clear_canvas message: the queue is emptied with get_nowait, then the call
\* self._conn_manager.clear_session(session_id) raises AttributeError, the class
\* having no such method; the handler of the try block logs it and the loop
\* continues. The statements after the call, the send of canvas_cleared among
\* them, are not reached.
ClearCanvas(w) ==
    /\ Receives(w)
    /\ "clear_session" \notin ManagerMethods
    /\ active_connections' =
           [active_connections EXCEPT ![conn_manager][handler[w].id].queue = drain(@)]
    /\ hist' = [hist EXCEPT ![handler[w].id].last = "clear"]
    /\ UNCHANGED <<svcVars, wireVars, drain_strategy, max_queue_depth, max_queue_size, next_qid, ws,
                   sent, handler, gen, deleter, conn_manager, lastGet>>


\* ------------------------------------------------ wire: text, bytes, JSON
\* A text is a sequence of code points, a bytes object a sequence of 0..255.
\* The strings that occur in messages, with their code points (u753b is a
\* one-character prompt outside ASCII).
Strs == {"status", "params", "next_frame", "prompt", "x", "u753b"}
CodePoints(s) ==
    CASE s = "status" -> <<115, 116, 97, 116, 117, 115>>
      [] s = "params" -> <<112, 97, 114, 97, 109, 115>>
      [] s = "next_frame" -> <<110, 101, 120, 116, 95, 102, 114, 97, 109, 101>>
      [] s = "prompt" -> <<112, 114, 111, 109, 112, 116>>
      [] s = "x" -> <<120>>
      [] s = "u753b" -> <<30011>>

\* str.encode("utf-8"), one code point and a whole text.
utf8(cp) ==
    IF cp < 128 THEN <<cp>>
    ELSE IF cp < 2048 THEN <<192 + (cp \div 64), 128 + (cp % 64)>>
    ELSE <<224 + (cp \div 4096), 128 + ((cp \div 64) % 64), 128 + (cp % 64)>>

RECURSIVE encode(_)
encode(text) ==
    IF Len(text) = 0 THEN <<>>
    ELSE IF Len(text) = 1 THEN utf8(text[1])
    ELSE LET half == Len(text) \div 2
         IN encode(SubSeq(text, 1, half)) \o encode(SubSeq(text, half + 1, Len(text)))

\* bytes.decode("utf-8"): ok is FALSE where it raises UnicodeDecodeError (a
\* stray or missing continuation byte, an overlong form, a lead byte above 239
\* being outside the texts used here). lead holds the indices of the bytes that
\* are not continuation bytes; width and code_point read the sequence that
\* starts at a lead byte.
width(b, p) ==
    IF b[p] < 128 THEN 1
    ELSE IF b[p] \in 194..223 THEN 2
    ELSE IF b[p] \in 224..239 THEN 3
    ELSE 0
code_point(b, p) ==
    IF width(b, p) = 1 THEN b[p]
    ELSE IF width(b, p) = 2 THEN (b[p] - 192) * 64 + (b[p + 1] - 128)
    ELSE (b[p] - 224) * 4096 + (b[p + 1] - 128) * 64 + (b[p + 2] - 128)
RECURSIVE decode_range(_, _, _)
decode_range(b, lo, hi) ==
    IF lo > hi THEN <<>>
    ELSE IF lo = hi THEN (IF b[lo] \in 128..191 THEN <<>> ELSE <<code_point(b, lo)>>)
    ELSE LET mid == (lo + hi) \div 2
         IN decode_range(b, lo, mid) \o decode_range(b, mid + 1, hi)
decode(b) ==
    LET lead == {p \in 1..Len(b) : b[p] \notin 128..191}
        ok == /\ b # <<>> => 1 \in lead
              /\ \A p \in lead :
                    /\ width(b, p) # 0
                    /\ p + width(b, p) - 1 <= Len(b)
                    /\ \A k \in 1..(width(b, p) - 1) : p + k \notin lead
                    /\ p + width(b, p) <= Len(b) => p + width(b, p) \in lead
                    /\ width(b, p) = 3 => code_point(b, p) >= 2048
    IN [ok |-> ok, text |-> IF ok THEN decode_range(b, 1, Len(b)) ELSE <<>>]

\* int.from_bytes(b, byteorder="big") of four bytes, and its inverse.
from_bytes(b) == b[1] * 16777216 + b[2] * 65536 + b[3] * 256 + b[4]
to_bytes(n) == <<n \div 16777216, (n \div 65536) % 256, (n \div 256) % 256, n % 256>>

\* A JSON value: a string or an object whose members are JSON values.
JStr(s) == [t |-> "str", s |-> s, o |-> EmptyMap]
JObj(f) == [t |-> "obj", s |-> "", o |-> f]
MapMerge(f, g) == [k \in (DOMAIN f) \cup (DOMAIN g) |-> IF k \in DOMAIN g THEN g[k] ELSE f[k]]

\* The order in which a client writes the members of an object.
KeyOrder == <<"status", "params", "prompt">>

\* The compact JSON text of a value, as a client's serializer writes it.
RECURSIVE dumps(_), dumps_members(_, _, _)
dumps(v) ==
    IF v.t = "str" THEN <<34>> \o CodePoints(v.s) \o <<34>>
    ELSE <<123>> \o dumps_members(v.o, 1, TRUE) \o <<125>>
dumps_members(f, k, first) ==
    IF k > Len(KeyOrder) THEN <<>>
    ELSE IF KeyOrder[k] \notin DOMAIN f THEN dumps_members(f, k + 1, first)
    ELSE (IF first THEN <<>> ELSE <<44>>)
         \o <<34>> \o CodePoints(KeyOrder[k]) \o <<34, 58>> \o dumps(f[KeyOrder[k]])
         \o dumps_members(f, k + 1, FALSE)

\* json.loads on a text: ok is FALSE where it raises JSONDecodeError. A string
\* runs to the next quotation mark; of an object's members with one key the
\* last wins.
JSONDecodeError == [ok |-> FALSE, val |-> JStr(""), next |-> 0]
StringAt(text, p) ==
    IF p > Len(text) \/ text[p] # 34 \/ ~\E q \in (p + 1)..Len(text) : text[q] = 34
    THEN JSONDecodeError
    ELSE LET q == CHOOSE q \in (p + 1)..Len(text) :
                      text[q] = 34 /\ \A r \in (p + 1)..(q - 1) : text[r] # 34
             chars == SubSeq(text, p + 1, q - 1)
         IN IF \E s \in Strs : CodePoints(s) = chars
            THEN [ok |-> TRUE, val |-> JStr(CHOOSE s \in Strs : CodePoints(s) = chars),
                  next |-> q + 1]
            ELSE JSONDecodeError

RECURSIVE ValueAt(_, _), MembersAt(_, _, _)
ValueAt(text, p) ==
    IF p > Len(text) THEN JSONDecodeError
    ELSE IF text[p] = 34 THEN StringAt(text, p)
    ELSE IF text[p] # 123 THEN JSONDecodeError
    ELSE IF p + 1 <= Len(text) /\ text[p + 1] = 125
         THEN [ok |-> TRUE, val |-> JObj(EmptyMap), next |-> p + 2]
    ELSE MembersAt(text, p + 1, EmptyMap)
MembersAt(text, p, acc) ==
    LET key == StringAt(text, p)
    IN IF ~key.ok \/ key.next > Len(text) \/ text[key.next] # 58 THEN JSONDecodeError
       ELSE LET v == ValueAt(text, key.next + 1)
            IN IF ~v.ok \/ v.next > Len(text) THEN JSONDecodeError
               ELSE IF text[v.next] = 44
                    THEN MembersAt(text, v.next + 1, MapPut(acc, key.val.s, v.val))
               ELSE IF text[v.next] = 125
                    THEN [ok |-> TRUE, val |-> JObj(MapPut(acc, key.val.s, v.val)),
                          next |-> v.next + 1]
               ELSE JSONDecodeError
loads(text) ==
    LET v == ValueAt(text, 1)
    IN IF v.ok /\ v.next = Len(text) + 1 THEN v ELSE JSONDecodeError

\* --------------------------------------- ConnectionManager: receive_message
\* What receive_message returns where it gives up or swallows an exception.
NoMessage == [data |-> JObj(EmptyMap), image |-> <<>>]

\* The params branch: {"status": data.get("status", "next_frame"), **params};
\* ok is FALSE where **params raises TypeError.
Flatten(data) ==
    IF data.t = "obj" /\ "params" \in DOMAIN data.o
    THEN LET params == data.o["params"]
             status == IF "status" \in DOMAIN data.o
                       THEN data.o["status"] ELSE JStr("next_frame")
         IN [ok |-> params.t = "obj",
             val |-> JObj(MapMerge([status |-> status], params.o))]
    ELSE [ok |-> TRUE, val |-> data]

\* receive_message on the message websocket.receive() returned: a binary
\* message is [4-byte length][JSON][image], a text message is JSON; anything
\* else, and every exception, gives ({}, b""). A length whose first byte is
\* 128 or more exceeds any message here and is compared without being computed.
receive_message(message) ==
    IF message.type = "bytes"
    THEN LET binary_data == message.body
         IN IF Len(binary_data) < 4 THEN NoMessage
            ELSE IF binary_data[1] >= 128 THEN NoMessage
            ELSE LET json_length == from_bytes(SubSeq(binary_data, 1, 4))
                 IN IF Len(binary_data) < 4 + json_length THEN NoMessage
                    ELSE LET json_str == decode(SubSeq(binary_data, 5, 4 + json_length))
                             data == loads(json_str.text)
                             image_bytes == SubSeq(binary_data, 5 + json_length,
                                                   Len(binary_data))
                         IN IF ~json_str.ok \/ ~data.ok \/ ~Flatten(data.val).ok
                            THEN NoMessage
                            ELSE [data |-> Flatten(data.val).val, image |-> image_bytes]
    ELSE IF message.type = "text"
    THEN LET data == loads(message.body)
         IN IF ~data.ok \/ ~Flatten(data.val).ok THEN NoMessage
            ELSE [data |-> Flatten(data.val).val, image |-> <<>>]
    ELSE NoMessage

\* The header a client writes: {"status": status, "params": params}.
Header(status, params) == JObj([status |-> JStr(status), params |-> JObj(params)])

\* The two forms in which a client sends a header with its payload: one framed
\* binary message, or the header as a text message (the payload then travels in
\* a message of its own).
Framed(header, payload) ==
    [type |-> "bytes",
     body |-> to_bytes(Len(encode(dumps(header)))) \o encode(dumps(header)) \o payload]
AsText(header) == [type |-> "text", body |-> dumps(header)]
Raw(payload) == [type |-> "bytes", body |-> payload]

\* ------------------------------- SessionAPI: receive loop, message by message
\* send_json: written to the session's handle if it is registered and open;
\* every exception is swallowed.
send_json(m, i, status) ==
    LET sock == get_websocket(m, i)
    IN sent' = IF sock # NoConn /\ ws[sock].application_state = "CONNECTED"
               THEN [sent EXCEPT ![sock] = Append(@, status)]
               ELSE sent

\* What a read of the session's handle meets: no handle (get_websocket gives
\* None), the next message in flight, or nothing yet (the read stays
\* suspended). A message of type disconnect is what websocket.receive() returns
\* when the client has gone.
NoBody == [type |-> "none", body |-> <<>>]
Disconnect == [type |-> "disconnect", body |-> <<>>]
Inbound(w) ==
    LET sock == get_websocket(conn_manager, handler[w].id)
    IN IF sock = NoConn THEN [kind |-> "none", message |-> NoBody]
       ELSE IF rx[sock].inbox # <<>>
            THEN [kind |-> "message", message |-> Head(rx[sock].inbox)]
       ELSE [kind |-> "blocked", message |-> NoBody]

\* websocket.receive() sets client_state to DISCONNECTED when it returns a
\* disconnect message.
Hears(w) ==
    ws' = IF Inbound(w).kind = "message" /\ Inbound(w).message = Disconnect
          THEN [ws EXCEPT ![get_websocket(conn_manager, handler[w].id)].client_state =
                              "DISCONNECTED"]
          ELSE ws

\* The messages in flight after the read.
Taken(w) ==
    IF Inbound(w).kind = "message"
    THEN [rx EXCEPT ![get_websocket(conn_manager, handler[w].id)].inbox = Tail(@)]
    ELSE rx

\* The ghost fields of a read at time clock: the last inbound message and the
\* longest silence so far.
Heard(r) ==
    [r EXCEPT !.last_in = clock, !.gap = Max(@, clock - r.last_in)]

\* The fields InputParams declares, with their defaults, and its validation:
\* prompt is a str; extra keys are allowed and kept (Config.extra = "allow").
Defaults == [prompt |-> JStr("")]
AcceptsAll(params_dict) == TRUE
Valid(params_dict) == "prompt" \in DOMAIN params_dict => params_dict["prompt"].t = "str"
InputParams(params_dict) == MapMerge(Defaults, params_dict)

\* `not image_data`, of the inline payload and of what receive_bytes returned:
\* None or empty bytes.
NoInlineImage(image_data) == image_data = <<>>
NeverMissing(image_data) == FALSE
Missing(image_data) == image_data = <<>>

\* The parameter object handed to update_data: SimpleNamespace(**params.dict()),
\* with the image attached in image mode.
ParameterObject(params_dict, attach, image_data) ==
    [fields |-> InputParams(params_dict), has_image |-> attach,
     image |-> IF attach THEN image_data ELSE <<>>]

rxFrame == <<svcVars, wire, clock, timeout, input_mode, drain_strategy, max_queue_depth,
             max_queue_size, next_qid, handler, deleter, conn_manager, lastGet>>

\* await update_data(session_id, params): the k-th object of a session is item
\* k of its queue; objs keeps the objects themselves.
Enqueue(w, after, obj) ==
    /\ update_data(conn_manager, handler[w].id, hist[handler[w].id].enq + 1)
    /\ hist' = IF check_user(conn_manager, handler[w].id)
               THEN [hist EXCEPT ![handler[w].id].enq = @ + 1, ![handler[w].id].last = "enq"]
               ELSE hist
    /\ rx' = [after EXCEPT ![w].at = "top", ![w].ev = "enqueued",
                           ![w].objs = Append(@, obj)]

\* The top of an iteration: the timeout test against last_time, which is read
\* once before the loop; when it fires, the timeout status is sent. Otherwise
\* the loop goes on to await receive_message.
LoopTop(w) ==
    /\ handler[w].pc = "loop"
    /\ rx[w].at = "top"
    /\ conn_manager # NoMgr
    /\ IF timeout > 0 /\ clock - rx[w].last_time > timeout
       THEN /\ send_json(conn_manager, handler[w].id, "timeout")
            /\ rx' = [rx EXCEPT ![w].at = "timed_out", ![w].ev = "timeout",
                                ![w].gap = Max(@, clock - rx[w].last_in)]
       ELSE /\ rx' = [rx EXCEPT ![w].at = "receive"]
            /\ UNCHANGED sent
    /\ UNCHANGED <<rxFrame, ws, active_connections, gen, hist>>

\* After the timeout status: await disconnect(session_id), return.
TimeoutDisconnect(w) ==
    /\ rx[w].at = "timed_out"
    /\ HandlerDisconnect(w, "loop", "fault_closing", "finally")

\* Messages that do not decode: an unterminated JSON text, a frame shorter than
\* its length prefix says, a frame whose header is not UTF-8, a frame whose
\* header is not JSON.
Garbled ==
    {[type |-> "text", body |-> <<123>>],
     [type |-> "bytes", body |-> <<0, 0, 0, 2, 123>>],
     [type |-> "bytes", body |-> <<0, 0, 0, 1, 148>>],
     [type |-> "bytes", body |-> <<0, 0, 0, 1, 123>>]}

\* The non-status keys of the decoded data.
params_dict_of(data) == [k \in (DOMAIN data) \ {"status"} |-> data[k]]

\* receive_message returned: empty data sleeps and continues; next_frame
\* without a pipeline sleeps and continues, with inline parameters goes on to
\* build the parameter object, without them goes on to await receive_json; any
\* other status continues.
Receive(w) ==
    /\ handler[w].pc = "loop"
    /\ rx[w].at = "receive"
    /\ conn_manager # NoMgr
    /\ Inbound(w).kind # "blocked"
    /\ LET in == Inbound(w)
           r == IF in.kind = "message" THEN receive_message(in.message) ELSE NoMessage
           data == r.data.o
           after == IF in.kind = "message"
                    THEN [Taken(w) EXCEPT ![w] = Heard(@)] ELSE rx
           ev == IF in.kind = "message" /\ in.message = Disconnect THEN "fault"
                 ELSE IF in.kind = "message" /\ in.message \in Garbled THEN "garbled"
                 ELSE IF data = EmptyMap THEN "empty"
                 ELSE "received"
       IN rx' = [after EXCEPT
              ![w].ev = ev,
              ![w].image = r.image,
              ![w].data = params_dict_of(data),
              ![w].at = IF data = EmptyMap THEN "top"
                        ELSE IF "status" \in DOMAIN data /\ data["status"] = JStr("next_frame")
                             THEN IF api_pipeline = None THEN "top"
                                  ELSE IF params_dict_of(data) # EmptyMap THEN "build"
                                  ELSE "params"
                        ELSE "top"]
    /\ Hears(w)
    /\ UNCHANGED <<rxFrame, sent, active_connections, gen, hist>>

\* maybe_params = await receive_json(session_id): {} without a handle or on an
\* exception (the client has gone, a binary message has no text, a text may not
\* parse); a dict
\* becomes params_dict, and an empty params_dict continues the loop.
ReceiveParams(w) ==
    /\ handler[w].pc = "loop"
    /\ rx[w].at = "params"
    /\ conn_manager # NoMgr
    /\ Inbound(w).kind # "blocked"
    /\ LET in == Inbound(w)
           parsed == IF in.kind = "message" /\ in.message.type = "text"
                     THEN loads(in.message.body) ELSE JSONDecodeError
           maybe_params == IF parsed.ok /\ parsed.val.t = "obj" THEN parsed.val.o ELSE EmptyMap
           after == IF in.kind = "message"
                    THEN [Taken(w) EXCEPT ![w] = Heard(@)] ELSE rx
       IN rx' = [after EXCEPT ![w].data = maybe_params,
                              ![w].ev = IF maybe_params = EmptyMap THEN "no_params" ELSE "params",
                              ![w].at = IF maybe_params = EmptyMap THEN "top" ELSE "build"]
    /\ Hears(w)
    /\ UNCHANGED <<rxFrame, sent, active_connections, gen, hist>>

\* params = self._pipeline.InputParams(**params_dict) raises ValidationError:
\* the loop's except clause logs it and disconnects.
InvalidParams(w) ==
    /\ rx[w].at = "build"
    /\ ~Valid(rx[w].data)
    /\ LoopFault(w)

\* The parameter object is built: in image mode without inline image the loop
\* goes on to await receive_bytes; otherwise the object is enqueued, with the
\* image in image mode.
BuildParams(w) ==
    /\ handler[w].pc = "loop"
    /\ rx[w].at = "build"
    /\ conn_manager # NoMgr
    /\ Valid(rx[w].data)
    /\ IF input_mode = "image" /\ NoInlineImage(rx[w].image)
       THEN /\ rx' = [rx EXCEPT ![w].at = "bytes"]
            /\ UNCHANGED <<active_connections, gen, hist>>
       ELSE Enqueue(w, rx, ParameterObject(rx[w].data, input_mode = "image", rx[w].image))
    /\ UNCHANGED <<rxFrame, ws, sent>>

\* image_data = await receive_bytes(session_id): None without a handle, b"" on
\* an exception (the client has gone, a text message has no bytes). Without
\* image data send_frame is sent, to a client that is still there, and the loop
\* continues; otherwise the object is enqueued with the image.
ReceiveBytes(w) ==
    /\ handler[w].pc = "loop"
    /\ rx[w].at = "bytes"
    /\ conn_manager # NoMgr
    /\ Inbound(w).kind # "blocked"
    /\ LET in == Inbound(w)
           image_data == IF in.kind = "message" /\ in.message.type = "bytes"
                         THEN in.message.body ELSE <<>>
           after == IF in.kind = "message"
                    THEN [Taken(w) EXCEPT ![w] = Heard(@)] ELSE rx
       IN IF Missing(image_data)
          THEN /\ IF in.kind = "message" /\ in.message = Disconnect
                  THEN UNCHANGED sent
                  ELSE send_json(conn_manager, handler[w].id, "send_frame")
               /\ rx' = [after EXCEPT ![w].at = "top", ![w].ev = "no_image"]
               /\ UNCHANGED <<active_connections, gen, hist>>
          ELSE /\ Enqueue(w, after, ParameterObject(rx[w].data, TRUE, image_data))
               /\ UNCHANGED sent
    /\ Hears(w)
    /\ UNCHANGED rxFrame

\* ------------------------------------------------------ the session's client
\* The three forms in which a client sends status next_frame with a parameter
\* map and image bytes; the raw binary message is sent where the engine takes
\* images.
Messages(form, status, params, payload) ==
    LET raw == IF input_mode = "image" THEN <<Raw(payload)>> ELSE <<>>
    IN IF form = "binary" THEN <<Framed(Header(status, params), payload)>>
       ELSE IF form = "text" THEN <<AsText(Header(status, params))>> \o raw
       ELSE <<AsText(JObj([status |-> JStr(status)])), AsText(JObj(params))>> \o raw

\* The client behind handle w sends the frame of wire, once the previous
\* messages were read.
Send(w) ==
    /\ handler[w].pc = "loop"
    /\ ws[w].client_state = "CONNECTED"
    /\ wire.at \in {"input", "sent"}
    /\ wire.n < MaxEnq
    /\ rx[w].inbox = <<>>
    /\ rx' = [rx EXCEPT ![w].inbox = Messages(wire.form, wire.status, wire.params,
                                              wire.payload)]
    /\ wire' = [wire EXCEPT !.at = "sent", !.n = @ + 1]
    /\ UNCHANGED <<svcVars, clock, timeout, input_mode, drain_strategy, max_queue_depth,
                   max_queue_size, active_connections, next_qid, ws, sent, handler, gen,
                   deleter, conn_manager, hist, lastGet>>

SendGarbled(w) ==
    /\ handler[w].pc = "loop"
    /\ ws[w].client_state = "CONNECTED"
    /\ wire.n < MaxEnq
    /\ rx[w].inbox = <<>>
    /\ \E message \in Garbled : rx' = [rx EXCEPT ![w].inbox = <<message>>]
    /\ wire' = [wire EXCEPT !.n = @ + 1]
    /\ UNCHANGED <<svcVars, clock, timeout, input_mode, drain_strategy, max_queue_depth,
                   max_queue_size, active_connections, next_qid, ws, sent, handler, gen,
                   deleter, conn_manager, hist, lastGet>>

\* The client goes away: its disconnect reaches the handle after the messages
\* in flight.
Hangup(w) ==
    /\ handler[w].pc = "loop"
    /\ ws[w].client_state = "CONNECTED"
    /\ Disconnect \notin {rx[w].inbox[k] : k \in 1..Len(rx[w].inbox)}
    /\ rx' = [rx EXCEPT ![w].inbox = Append(@, Disconnect)]
    /\ UNCHANGED <<svcVars, wire, clock, timeout, input_mode, drain_strategy, max_queue_depth,
                   max_queue_size, active_connections, next_qid, ws, sent, handler, gen,
                   deleter, conn_manager, hist, lastGet>>

\* Time passes.
Tick ==
    /\ clock < MaxClock
    /\ clock' = clock + 1
    /\ UNCHANGED <<svcVars, wire, rx, timeout, input_mode, drain_strategy, max_queue_depth,
                   max_queue_size, active_connections, next_qid, ws, sent, handler, gen,
                   deleter, conn_manager, hist, lastGet>>

\* --------------------------------------- SessionAPI: streaming generator
\* The generator ends by an exception that nothing in generate() catches.
Fails(g, e) == gen' = [gen EXCEPT ![g].loop.at = "failed", ![g].loop.err = e]

genFrame == <<svcVars, wireVars, drain_strategy, max_queue_depth, max_queue_size, active_connections,
              next_qid, ws, handler, deleter, conn_manager, hist, lastGet>>

\* stream_endpoint: 503 without a manager or a pipeline; otherwise wait_for_data
\* is read from should_block_for_data and the generator is handed to the response.
stream_endpoint(g, i) ==
    /\ gen[g].pc = "idle"
    /\ gen[g].loop.at = "none"
    /\ conn_manager # NoMgr
    /\ api_pipeline # None
    /\ gen' = [gen EXCEPT ![g].loop = [NoLoop EXCEPT !.at = "top", !.sid = i,
                                                     !.wait = should_block_for_data]]
    /\ UNCHANGED <<genFrame, sent>>

\* The top of an iteration: the generator returns when the HTTP client is gone;
\* otherwise send_json(send_frame), which sends on an open registered handle and
\* swallows its own exceptions.
StreamTop(g) ==
    /\ gen[g].loop.at = "top"
    /\ \E gone \in BOOLEAN :
          IF gone
          THEN gen' = [gen EXCEPT ![g].loop.at = "closed"] /\ UNCHANGED sent
          ELSE IF conn_manager = NoMgr
               THEN Fails(g, "AttributeError") /\ UNCHANGED sent
               ELSE LET sock == get_websocket(conn_manager, gen[g].loop.sid)
                    IN /\ gen' = [gen EXCEPT ![g].loop.at = "sent", ![g].loop.frame = "none"]
                       /\ sent' = IF sock # NoConn /\ ws[sock].application_state = "CONNECTED"
                                  THEN [sent EXCEPT ![sock] = Append(@, "send_frame")]
                                  ELSE sent
    /\ UNCHANGED genFrame

\* params = await get_latest_data(session_id, wait=wait_for_data).
StreamGet(g) ==
    /\ gen[g].loop.at = "sent"
    /\ gen[g].pc = "idle"
    /\ IF conn_manager = NoMgr
       THEN Fails(g, "AttributeError") /\ UNCHANGED <<genFrame, sent>>
       ELSE GetLatestData(g, gen[g].loop.sid, gen[g].loop.wait)

\* After get_latest_data returned: with params None the test calls
\* self._conn_manager.is_session_cleared, which the class does not define, so
\* AttributeError ends the generator; with params and no pipeline it sleeps and
\* continues; otherwise predict is started in a thread, and the history of
\* the session records the params handed to it.
StreamGot(g) ==
    /\ gen[g].loop.at = "got"
    /\ IF gen[g].ret = None
       THEN /\ IF conn_manager = NoMgr \/ "is_session_cleared" \notin ManagerMethods
               THEN Fails(g, "AttributeError")
               ELSE gen' = [gen EXCEPT ![g].loop.at = "predict", ![g].loop.frame = "blank"]
            /\ UNCHANGED hist
       ELSE IF api_pipeline = None
            THEN gen' = [gen EXCEPT ![g].loop.at = "top"] /\ UNCHANGED hist
            ELSE /\ gen' = [gen EXCEPT ![g].loop.at = "predict", ![g].loop.e = api_pipeline]
                 /\ hist' = [hist EXCEPT ![gen[g].loop.sid].fed = Append(@, gen[g].ret)]
    /\ UNCHANGED <<svcVars, wireVars, drain_strategy, max_queue_depth, max_queue_size,
                   active_connections, next_qid, ws, handler, deleter, conn_manager,
                   lastGet, sent>>

\* predict returns in its thread: an image is encoded and yielded, None is
\* logged and the loop continues, an exception propagates out of generate().
StreamPredict(g) ==
    /\ gen[g].loop.at = "predict"
    /\ \E out \in {"image", "none", "raise"} :
          IF out = "raise"
          THEN gen' = [gen EXCEPT ![g].loop.at = "failed", ![g].loop.err = "predict",
                                  ![g].loop.e = None]
          ELSE gen' = [gen EXCEPT ![g].loop.at = "top", ![g].loop.e = None,
                                  ![g].loop.frame = IF out = "none" THEN "none"
                                                    ELSE IF @ = "blank" THEN "blank"
                                                    ELSE "image"]
    /\ UNCHANGED <<genFrame, sent>>

\* ------------------------------------------------ SessionService: config
\* A configuration is a flat map from keys to values; an override map may map a
\* key to None. reload's overrides=None and overrides={} take the same branches
\* (both are false in `if persist and overrides` and `if ephemeral_overrides`),
\* so both are the empty map here.
Keys == {"model_id", "acceleration"}
Values == {1, 2}
Configs == UNION {[K -> Values] : K \in SUBSET Keys}
OverrideMaps ==
    UNION {[K -> Values \cup {None}] : K \in {K \in SUBSET Keys : Cardinality(K) <= MaxOverrides}}
BaseConfig == [model_id |-> 1, acceleration |-> 1]

\* _apply_overrides(target, overrides): a None value pops the key from the
\* target, any other value is assigned to it.
apply_overrides(target, overrides) ==
    LET popped == {k \in DOMAIN overrides : overrides[k] = None}
    IN [k \in ((DOMAIN target) \cup (DOMAIN overrides)) \ popped |->
           IF k \in DOMAIN overrides THEN overrides[k] ELSE target[k]]

\* ------------------------------------------------ SessionService: engine
\* An engine handle (pipeline object) and what it still holds: its stream
\* attribute, and the child processes recorded in ServiceState.child_pids.
\* released is the history of its teardown: "components" when the stream's
\* unet, vae, text_encoder and pipe were deleted, "stream" when the stream
\* attribute was deleted from the pipeline, "pipeline" when the service dropped
\* its reference to the handle.
NoEngine == [built |-> FALSE, stream |-> FALSE, children |-> FALSE, released |-> <<>>]
NewEngine == [built |-> TRUE, stream |-> TRUE, children |-> TRUE, released |-> <<>>]
ServiceState == [pipeline |-> None, config |-> EmptyMap, initialized |-> FALSE]

Built(eng) == Cardinality({e \in Mgrs : eng[e].built})
Live(eng, e) == eng[e].built /\ (eng[e].stream \/ eng[e].children)

\* The calls that raise during one operation: the engine constructor, and the
\* deletion of a pipeline's stream attribute.
Faults ==
    {f \in [construct : BOOLEAN, release : BOOLEAN] :
        /\ f.construct => "construct" \in raises
        /\ f.release => "release" \in raises}

\* The service's objects as one value: SessionService._state, the persistent
\* overrides and the fields of its SessionAPI; raised says that the operation
\* working on them ended with an exception.
Current == [state |-> state, api_pipeline |-> api_pipeline,
            conn_manager |-> conn_manager, engine |-> engine,
            persistent_overrides |-> persistent_overrides, raised |-> FALSE]

Install(S) ==
    /\ state' = S.state
    /\ api_pipeline' = S.api_pipeline
    /\ conn_manager' = S.conn_manager
    /\ engine' = S.engine
    /\ persistent_overrides' = S.persistent_overrides

\* `del self._pipeline.stream` and `delattr(pipeline, 'stream')`: the attribute
\* goes unless the deletion raises, which every caller swallows.
del_stream(h, f) ==
    IF h.stream /\ ~f.release
    THEN [h EXCEPT !.stream = FALSE, !.released = Append(@, "stream")]
    ELSE h

\* _cleanup_streamdiffusion_pipeline: the components of pipeline.stream are
\* deleted one by one, then the stream attribute.
cleanup_streamdiffusion_pipeline(h, f) ==
    del_stream([h EXCEPT !.released = Append(@, "components")], f)

\* _cleanup_pipeline_resources: a pipeline that has a stream attribute has it
\* cleaned, and the child processes are terminated; its own exceptions are
\* logged, not raised.
cleanup_pipeline_resources(eng, p, f) ==
    [eng EXCEPT ![p] =
        [(IF @.stream THEN cleanup_streamdiffusion_pipeline(@, f) ELSE @)
            EXCEPT !.children = FALSE]]

\* The service's reference to handle p is replaced.
Dropped(eng, p) ==
    IF p = None THEN eng ELSE [eng EXCEPT ![p].released = Append(@, "pipeline")]

\* _initialize_pipeline's test for an old pipeline to clean first.
NeverCleans(st) == FALSE
NeedsCleanup(st) == st.initialized /\ st.pipeline # None

\* _initialize_pipeline: clean the old pipeline, merge the configuration,
\* construct the new pipeline, init_api (which builds a new ConnectionManager),
\* then replace the state. A constructor that raises leaves the function before
\* init_api and before the state is replaced.
initialize_pipeline(S, ephemeral_overrides, f) ==
    LET eng == IF NeedsCleanup(S.state)
               THEN cleanup_pipeline_resources(S.engine, S.state.pipeline, f)
               ELSE S.engine
        merged == apply_overrides(apply_overrides(config, S.persistent_overrides),
                                  ephemeral_overrides)
        e == Built(S.engine) + 1
    IN IF f.construct
       THEN [S EXCEPT !.engine = eng, !.raised = TRUE]
       ELSE [state |-> [pipeline |-> e, config |-> merged, initialized |-> TRUE],
             api_pipeline |-> e,
             conn_manager |-> e,
             engine |-> [Dropped(eng, S.state.pipeline) EXCEPT ![e] = NewEngine],
             persistent_overrides |-> S.persistent_overrides,
             raised |-> FALSE]

\* shutdown_api after its disconnect loop: del pipeline.stream, then the three
\* fields are set to None.
ManagerKept(S, f) == [S EXCEPT !.api_pipeline = None]
shutdown_api_tail(S, f) ==
    [S EXCEPT !.engine = IF S.api_pipeline # None
                         THEN [@ EXCEPT ![S.api_pipeline] = del_stream(@, f)]
                         ELSE @,
              !.api_pipeline = None,
              !.conn_manager = NoMgr]

\* shutdown after shutdown_api: clean the pipeline, reset the state.
StateKept(S, f) == S
shutdown_tail(S, f) ==
    [S EXCEPT !.engine = IF S.state.pipeline # None
                         THEN Dropped(cleanup_pipeline_resources(@, S.state.pipeline, f),
                                      S.state.pipeline)
                         ELSE @,
              !.state = ServiceState]

\* reload after shutdown_api: overrides to persist are applied to the persistent
\* layer and the pipeline is initialized without ephemeral overrides; otherwise
\* it is initialized with the overrides as ephemeral ones.
reload_tail(S, overrides, persist, f) ==
    IF persist /\ overrides # EmptyMap
    THEN initialize_pipeline(
             [S EXCEPT !.persistent_overrides = apply_overrides(@, overrides)],
             EmptyMap, f)
    ELSE initialize_pipeline(S, overrides, f)

\* startup's and get_api's test before _initialize_pipeline.
AlwaysInit(st) == TRUE
NeedsInit(st) == ~st.initialized

\* ------------------------------------------- SessionAPI: shutdown_api loop
\* list(active_connections.keys()): the ids in dict order.
RECURSIVE InOrder(_, _)
InOrder(conns, S) ==
    IF S = {} THEN <<>>
    ELSE LET x == CHOOSE x \in S : \A y \in S : conns[x].ord <= conns[y].ord
         IN <<x>> \o InOrder(conns, S \ {x})

NoUserIds(conns) == <<>>
user_ids(conns) == InOrder(conns, DOMAIN conns)

\* The loop `for uid in user_ids: await disconnect(uid)` run up to its next
\* suspension: a disconnect that finds no open handle deletes the session at
\* once, one whose close() raises is swallowed, and one that finds an open
\* handle suspends in close(). The result is the manager's sessions and the ids
\* still to do, the first of them being the one to close.
RECURSIVE Teardown(_, _)
Teardown(conns, todo) ==
    IF todo = <<>> THEN [conns |-> conns, todo |-> todo]
    ELSE LET uid == Head(todo)
             sock == SocketOf(conns, uid)
         IN IF sock = NoConn
            THEN Teardown(MapPop(conns, uid), Tail(todo))
            ELSE IF ws[sock].application_state = "CONNECTED"
                 THEN [conns |-> conns, todo |-> todo]
                 ELSE Teardown(conns, Tail(todo))

\* ------------------------------------------------ SessionService: callers
\* A call of an operation with its arguments (reload's overrides and persist).
Call(op) == [op |-> op, overrides |-> EmptyMap, persist |-> FALSE]
CallOf(task) == [op |-> task.op, overrides |-> task.overrides, persist |-> task.persist]

\* kept is the history of the overrides given with persist=True, the latest
\* value of each key.
NoCall == [op |-> "none", init |-> FALSE, waited |-> FALSE, e |-> 0, m |-> NoMgr,
           torn |-> {}, raised |-> FALSE, overrides |-> EmptyMap, persist |-> FALSE,
           kept |-> EmptyMap]
IdleCaller == [pc |-> "idle", op |-> "none", waited |-> FALSE, m |-> NoMgr, todo |-> <<>>,
               torn |-> {}, overrides |-> EmptyMap, persist |-> FALSE]

\* The test `lock.locked()` inside asyncio.Lock.acquire.
LockIgnored == TRUE
LockFree == lock.owner = NoOwner

\* asyncio.Lock.release: the first waiter is woken, and no other task can take
\* the lock before it runs.
Released ==
    IF lock.waiters = <<>>
    THEN [owner |-> NoOwner, waiters |-> <<>>]
    ELSE [owner |-> Head(lock.waiters), waiters |-> Tail(lock.waiters)]

\* An operation returns to its caller, or raises, with the service objects S in
\* place; the call is recorded in the caller's history. Engine constructions
\* are bounded, and the constructor raises at most once in a run.
ServiceReturn(c, call, S, m, torn) ==
    /\ S.state.pipeline <= MaxEngines
    /\ Install(S)
    /\ raises' = IF S.raised THEN raises \ {"construct"} ELSE raises
    /\ caller' = [caller EXCEPT ![c] = IdleCaller]
    /\ lastCall' = [op |-> call.op, init |-> S.state.initialized,
                    waited |-> caller[c].waited,
                    e |-> Built(S.engine), m |-> m, torn |-> torn,
                    raised |-> S.raised,
                    overrides |-> call.overrides, persist |-> call.persist,
                    kept |-> IF call.op = "reload" /\ call.persist
                             THEN MapMerge(lastCall.kept, call.overrides)
                             ELSE lastCall.kept]

\* The end of a teardown: the rest of shutdown_api, then the rest of shutdown
\* or of reload; the lock is released on return and on an exception.
EndTeardown(c, call, m, torn) ==
    /\ \E f \in Faults :
          ServiceReturn(c, call,
                        IF call.op = "shutdown"
                        THEN shutdown_tail(shutdown_api_tail(Current, f), f)
                        ELSE reload_tail(shutdown_api_tail(Current, f),
                                         call.overrides, call.persist, f),
                        m, torn)
    /\ lock' = Released

\* shutdown_api's loop on manager m from the ids todo, up to its suspension in a
\* close() (the lock stays held) or to the end of the operation.
StepTeardown(c, call, m, conns, todo, torn) ==
    LET r == Teardown(conns, todo)
    IN /\ active_connections' = [active_connections EXCEPT ![m] = r.conns]
       /\ IF r.todo = <<>>
          THEN EndTeardown(c, call, m, torn) /\ UNCHANGED ws
          ELSE /\ ws' = [ws EXCEPT ![r.conns[Head(r.todo)].websocket].application_state =
                                       "DISCONNECTED"]
               /\ caller' = [caller EXCEPT ![c] =
                      [@ EXCEPT !.pc = "closing", !.op = call.op, !.m = m,
                                !.todo = r.todo, !.torn = torn,
                                !.overrides = call.overrides, !.persist = call.persist]]
               /\ lock' = [lock EXCEPT !.owner = c]
               /\ UNCHANGED <<state, api_pipeline, conn_manager, engine, lastCall,
                              persistent_overrides, raises>>

\* shutdown_api from its start: without a manager there is no loop.
BeginTeardown(c, call) ==
    /\ teardowns' = teardowns + 1
    /\ IF conn_manager = NoMgr
       THEN EndTeardown(c, call, NoMgr, {}) /\ UNCHANGED <<active_connections, ws>>
       ELSE LET conns == active_connections[conn_manager]
            IN StepTeardown(c, call, conn_manager, conns, user_ids(conns),
                            {[id |-> i, w |-> conns[i].websocket] : i \in DOMAIN conns})

\* The body of an operation's `async with self._lock` block, from its start.
RunLocked(c, call) ==
    IF call.op = "reload" \/ (call.op = "shutdown" /\ state.initialized)
    THEN BeginTeardown(c, call)
    ELSE /\ \E f \in Faults :
               ServiceReturn(c, call,
                             IF call.op # "shutdown" /\ NeedsInit(state)
                             THEN initialize_pipeline(Current, EmptyMap, f)
                             ELSE Current,
                             NoMgr, {})
         /\ lock' = Released
         /\ UNCHANGED <<active_connections, ws, teardowns>>

\* `async with self._lock`: a free lock is taken without suspending; otherwise
\* the task waits its turn.
AcquireAndRun(c, call) ==
    IF LockFree
    THEN RunLocked(c, call)
    ELSE /\ lock' = [lock EXCEPT !.waiters = Append(@, c)]
         /\ caller' = [caller EXCEPT ![c] =
                [@ EXCEPT !.pc = "waiting", !.op = call.op, !.waited = TRUE,
                          !.overrides = call.overrides, !.persist = call.persist]]
         /\ UNCHANGED <<state, api_pipeline, conn_manager, engine, active_connections,
                        ws, teardowns, lastCall, persistent_overrides, raises>>

\* Callers are interchangeable tasks: a call is started by the first idle one.
FirstIdle(c) == caller[c].pc = "idle" /\ \A d \in Callers : d < c => caller[d].pc # "idle"

svcFrame == <<wireVars, config, drain_strategy, max_queue_depth, max_queue_size,
              next_qid, sent, handler, gen, deleter, hist, lastGet>>

startup(c) ==
    /\ FirstIdle(c)
    /\ AcquireAndRun(c, Call("startup"))
    /\ UNCHANGED svcFrame

shutdown(c) ==
    /\ FirstIdle(c)
    /\ AcquireAndRun(c, Call("shutdown"))
    /\ UNCHANGED svcFrame

\* reload() without arguments.
reload(c) ==
    /\ FirstIdle(c)
    /\ AcquireAndRun(c, Call("reload"))
    /\ UNCHANGED svcFrame

\* reload(overrides, persist).
reload_overrides(c, overrides, persist) ==
    /\ FirstIdle(c)
    /\ AcquireAndRun(c, [op |-> "reload", overrides |-> overrides, persist |-> persist])
    /\ UNCHANGED svcFrame

\* get_api tests the flag before it takes the lock, and again under the lock.
get_api(c) ==
    /\ FirstIdle(c)
    /\ IF NeedsInit(state)
       THEN AcquireAndRun(c, Call("get_api"))
       ELSE /\ ServiceReturn(c, Call("get_api"), Current, NoMgr, {})
            /\ UNCHANGED <<lock, active_connections, ws, teardowns>>
    /\ UNCHANGED svcFrame

\* A task that waited for the lock runs its block.
LockResume(c) ==
    /\ caller[c].pc = "waiting"
    /\ lock.owner = c
    /\ RunLocked(c, CallOf(caller[c]))
    /\ UNCHANGED svcFrame

\* close() returned inside shutdown_api's loop: delete_user, then the loop goes
\* on with the next id.
CloseReturn(c) ==
    /\ caller[c].pc = "closing"
    /\ StepTeardown(c, CallOf(caller[c]), caller[c].m,
                    MapPop(active_connections[caller[c].m], Head(caller[c].todo)),
                    Tail(caller[c].todo), caller[c].torn)
    /\ UNCHANGED teardowns
    /\ UNCHANGED svcFrame

\* The service as runtime.py constructs it and as the routers call it: the
\* base configuration of config.py, no override persisted, reload called
\* without arguments, and no call of the environment raises.
NoOverrides ==
    /\ config = BaseConfig
    /\ persistent_overrides = EmptyMap
    /\ raises = {}

\* No client traffic is modelled below the level of whole messages: nothing is
\* in flight, the clock stands still and no timeout is configured.
NoTraffic ==
    /\ wire = NoWire
    /\ rx = [w \in Conns |-> IdleRx]
    /\ clock = 0
    /\ timeout = 0
    /\ input_mode = "image"

\* =================================================================== SpecQueue
\* The queue operations of one ConnectionManager as the tests drive them:
\* a session is connected, update_data and get_latest_data are called on it,
\* and it may be deleted. Every constructor configuration is covered.
InitCommon ==
    /\ active_connections = [m \in Mgrs |-> EmptyMap]
    /\ next_qid = 1
    /\ ws = [w \in Conns |-> NewSocket]
    /\ sent = [w \in Conns |-> <<>>]
    /\ handler = [w \in Conns |-> IdleHandler]
    /\ gen = [g \in Gens |-> IdleGen]
    /\ deleter = [d \in Deleters |-> IdleDeleter]
    /\ hist = [i \in Ids |-> FreshHist]
    /\ lastGet = NoGet
    /\ lock = [owner |-> NoOwner, waiters |-> <<>>]
    /\ caller = [c \in Callers |-> IdleCaller]
    /\ teardowns = 0
    /\ lastCall = NoCall

\* The service after SessionService.__init__: nothing is built.
ServiceDown ==
    /\ state = ServiceState
    /\ api_pipeline = None
    /\ conn_manager = NoMgr
    /\ engine = [e \in Mgrs |-> NoEngine]

\* The service after its first initialization: engine 1 and manager 1.
ServiceUp ==
    /\ state = [pipeline |-> 1, config |-> config, initialized |-> TRUE]
    /\ api_pipeline = 1
    /\ conn_manager = 1
    /\ engine = [e \in Mgrs |-> IF e = 1 THEN NewEngine ELSE NoEngine]

InitQueue ==
    /\ InitCommon
    /\ NoOverrides
    /\ NoTraffic
    /\ ServiceUp
    /\ drain_strategy \in {"latest", "all"}
    /\ max_queue_depth \in {NoDepth, 1, 2}
    /\ max_queue_size = 0

NextQueue ==
    \/ Accept(1, 1)
    \/ Connect(1)
    \/ EnterLoop(1)
    \/ UpdateData(1)
    \/ \E wait \in BOOLEAN : GetLatestData("g1", 1, wait)
    \/ Resume("g1")
    \/ DeleteSession("d1", 1)
    \/ DeleteFinish("d1")

SpecQueue == InitQueue /\ [][NextQueue]_vars

\* ------------------------------------------------------------- C1 .. C5
LiveIds == IF conn_manager = NoMgr THEN {} ELSE Sessions(conn_manager)
QueueOf(i) == active_connections[conn_manager][i].queue

\* C1: under `latest`, a non-waiting get_latest_data that follows N >= 1
\* update_data calls returns the N-th (last) item enqueued; one that follows
\* such a call directly returns None, as does one on an empty queue; and after
\* a non-waiting call the queue is empty.
C1_LatestDrain ==
    /\ (lastGet.live /\ ~lastGet.wait /\ drain_strategy = "latest") =>
          /\ lastGet.prev = "enq" => lastGet.ret = lastGet.n
          /\ lastGet.prev = "get_nowait" => lastGet.ret = None
          /\ lastGet.empty => lastGet.ret = None
    /\ \A i \in LiveIds :
          (drain_strategy = "latest" /\ hist[i].last = "get_nowait") => QueueOf(i) = <<>>

C1_Witness ==
    /\ drain_strategy = "latest"
    /\ lastGet.live /\ ~lastGet.wait /\ lastGet.prev = "enq"
    /\ lastGet.n = 3 /\ lastGet.ret = 3
    /\ max_queue_depth = NoDepth

\* C2: under `all`, the k-th item a session's dequeues deliver is the k-th item
\* enqueued on it (a, b, c come back as a, then b, then c).
C2_AllFifo ==
    (lastGet.live /\ drain_strategy = "all" /\ lastGet.ret # None) =>
        lastGet.ret = lastGet.k

\* C3: under `all`, update_data never discards: the items enqueued on a live
\* session and not yet delivered are all still queued, in enqueue order.
C3_AllNeverDiscards ==
    \A i \in LiveIds :
        drain_strategy = "all" =>
            QueueOf(i) = [j \in 1..(hist[i].enq - hist[i].deq) |-> hist[i].deq + j]

\* C4: a task blocked in get_latest_data(wait=true) on an empty queue is resumed
\* by the next update_data on the session and returns the item that call
\* enqueued.
C4_BlockedGetReturnsEnqueued ==
    \A g \in Gens :
        /\ (gen[g].pc = "idle" /\ gen[g].expect # None) => gen[g].ret = gen[g].expect
        /\ (gen[g].pc = "blocked" /\ gen[g].id \in Sessions(gen[g].m)
              /\ active_connections[gen[g].m][gen[g].id].qid = gen[g].q)
             => active_connections[gen[g].m][gen[g].id].queue = <<>>

\* C5: no task stays blocked in get_latest_data(wait=true) on the queue of a
\* session that disconnect has removed.
C5_DisconnectUnblocks ==
    \A g \in Gens :
        gen[g].pc = "blocked" =>
            /\ gen[g].id \in Sessions(gen[g].m)
            /\ active_connections[gen[g].m][gen[g].id].qid = gen[g].q

\* =================================================================== SpecConn
\* Clients open handles, under session ids that may repeat, against one manager
\* with a configured capacity; handlers end by a fault in their loop, and
\* sessions are deleted through the API.
\* Session ids are interchangeable uuids: handle w uses one of the first w ids.
HandleIds(w) == 1..Min(w, MaxIds)

InitConn ==
    /\ InitCommon
    /\ NoOverrides
    /\ NoTraffic
    /\ ServiceUp
    /\ drain_strategy = "latest"
    /\ max_queue_depth = 1
    /\ max_queue_size \in 0..MaxK

NextConn ==
    \/ \E w \in Conns : \E i \in HandleIds(w) : Accept(w, i)
    \/ \E w \in Conns : Connect(w)
    \/ \E w \in Conns : EnterLoop(w)
    \/ \E w \in Conns : LoopFault(w)
    \/ \E w \in Conns : LoopFaultFinish(w)
    \/ \E w \in Conns : Finally(w)
    \/ \E w \in Conns : FinallyFinish(w)
    \/ \E i \in Ids : DeleteSession("d1", i)
    \/ DeleteFinish("d1")

SpecConn == InitConn /\ [][NextConn]_vars

\* ------------------------------------------------------------------- C6
\* C6: with max_queue_size = K > 0 the manager never holds more than K sessions;
\* a connect that finds fewer than K registered (or K = 0) registers its
\* session, and one that finds K registered is rejected with the error status
\* and ServerFullException, leaving the registered sessions unchanged.
C6_ConnectStep(w) ==
    LET m == handler[w].m
        K == handler[w].K
    IN (handler[w].pc = "accepting" /\ handler'[w].pc # "accepting") =>
          IF K > 0 /\ Cardinality(DOMAIN active_connections[m]) >= K
          THEN /\ handler'[w].pc = "finally"
               /\ Last(sent'[w]) = "error"
               /\ active_connections' = active_connections
          ELSE /\ handler'[w].pc = "handshake"
               /\ handler[w].id \in DOMAIN active_connections'[m]
               /\ active_connections'[m][handler[w].id].websocket = w

C6_Capacity ==
    /\ [](\A m \in Mgrs :
            max_queue_size > 0 => Cardinality(DOMAIN active_connections[m]) <= max_queue_size)
    /\ [][\A w \in Conns : C6_ConnectStep(w)]_vars

C6_Witness ==
    /\ max_queue_size = MaxK
    /\ get_user_count(1) = MaxK
    /\ \E w \in Conns : /\ handler[w].pc = "finally"
                        /\ sent[w] = <<"error">>
                        /\ handler[w].id \notin Sessions(1)

\* =================================================================== SpecSvc
\* One SessionService from its construction: callers run startup, get_api,
\* reload and shutdown concurrently while clients connect, each under its own
\* session id (create_session hands out uuid4 ids), and handlers end by faults.
InitSvc ==
    /\ InitCommon
    /\ NoOverrides
    /\ NoTraffic
    /\ ServiceDown
    /\ drain_strategy = "latest"
    /\ max_queue_depth = 1
    /\ max_queue_size = 0

NextSvc ==
    \/ \E c \in Callers : startup(c)
    \/ \E c \in Callers : get_api(c)
    \/ \E c \in Callers : reload(c)
    \/ \E c \in Callers : shutdown(c)
    \/ \E c \in Callers : LockResume(c)
    \/ \E c \in Callers : CloseReturn(c)
    \/ \E w \in Clients : Accept(w, w)
    \/ \E w \in Conns : Connect(w)
    \/ \E w \in Conns : EnterLoop(w)
    \/ \E w \in Conns : LoopFault(w)
    \/ \E w \in Conns : LoopFaultFinish(w)
    \/ \E w \in Conns : Finally(w)
    \/ \E w \in Conns : FinallyFinish(w)

SpecSvc == InitSvc /\ [][NextSvc]_vars

\* ------------------------------------------------------------- C7 .. C9
\* A disconnect of session i on manager m, by the session's own handler, that
\* has closed the handle and is suspended before its delete_user.
ClosingItself(h, m, i) ==
    \E w \in Conns : /\ h[w].pc \in {"fault_closing", "final_closing"}
                     /\ h[w].id = i
                     /\ h[w].dm = m

\* C7: when a reload that found N sessions connected returns, the active
\* manager has no session, and each of the N sessions has its handle closed and
\* is registered neither in the active manager nor in the replaced one (from
\* which it is gone, or is being deleted by the disconnect that closed it).
C7_ReloadStep ==
    (lastCall' # lastCall /\ lastCall'.op = "reload") =>
        /\ conn_manager' # NoMgr
        /\ active_connections'[conn_manager'] = EmptyMap
        /\ \A r \in lastCall'.torn :
              /\ ws'[r.w].application_state = "DISCONNECTED"
              /\ r.id \notin DOMAIN active_connections'[conn_manager']
              /\ \/ r.id \notin DOMAIN active_connections'[lastCall'.m]
                 \/ ClosingItself(handler', lastCall'.m, r.id)

C9_InitializedOnce ==
    /\ Built(engine) <= 1 + teardowns
    /\ lastCall.op \in {"startup", "get_api"} => lastCall.init

C9_Witness ==
    /\ lastCall.op = "get_api"
    /\ lastCall.waited
    /\ lastCall.init
    /\ Built(engine) = 1 + teardowns

\* =================================================================== SpecProto
\* The protocol handler's receive loop on an initialized service, under the two
\* manager configurations of runtime.py: clients connect under their own ids
\* and send next_frame and clear_canvas messages, a consumer dequeues, and
\* handlers end by faults.
InitProto ==
    /\ InitCommon
    /\ NoOverrides
    /\ NoTraffic
    /\ ServiceUp
    /\ drain_strategy \in {"latest", "all"}
    /\ max_queue_depth = 1
    /\ max_queue_size = 0

NextProto ==
    \/ \E w \in Clients : Accept(w, w)
    \/ \E w \in Conns : Connect(w)
    \/ \E w \in Conns : EnterLoop(w)
    \/ \E w \in Conns : NextFrame(w)
    \/ \E w \in Conns : ClearCanvas(w)
    \/ \E i \in Ids : GetLatestData("g1", i, should_block_for_data)
    \/ Resume("g1")
    \/ \E w \in Conns : LoopFault(w)
    \/ \E w \in Conns : LoopFaultFinish(w)
    \/ \E w \in Conns : Finally(w)
    \/ \E w \in Conns : FinallyFinish(w)

SpecProto == InitProto /\ [][NextProto]_vars

\* ------------------------------------------------------------------ C10
\* C10: once the handler of a live session has processed a clear_canvas
\* message and is back in its loop, the session's queue is empty and the last
\* status message sent to the session is canvas_cleared.
C10_ClearAcknowledged ==
    \A w \in Conns :
        (/\ handler[w].pc = "loop"
         /\ handler[w].id \in LiveIds
         /\ hist[handler[w].id].last = "clear")
        => /\ QueueOf(handler[w].id) = <<>>
           /\ Last(sent[w]) = "canvas_cleared"

\* =================================================================== SpecStream
\* A streaming generator attached to a client's session on an initialized
\* service, under the two manager configurations of runtime.py: the client
\* connects and sends next_frame and clear_canvas messages, the generator runs
\* its loop, and the session may be deleted through the API.
InitStream ==
    /\ InitCommon
    /\ NoOverrides
    /\ NoTraffic
    /\ ServiceUp
    /\ drain_strategy \in {"latest", "all"}
    /\ max_queue_depth = 1
    /\ max_queue_size = 0

GenSteps ==
    \/ StreamTop("g1")
    \/ StreamGet("g1")
    \/ Resume("g1")
    \/ StreamGot("g1")
    \/ StreamPredict("g1")

NextStream ==
    \/ \E w \in Clients : Accept(w, w)
    \/ \E w \in Conns : Connect(w)
    \/ \E w \in Conns : EnterLoop(w)
    \/ \E w \in Conns : NextFrame(w)
    \/ \E w \in Conns : ClearCanvas(w)
    \/ \E i \in Clients : stream_endpoint("g1", i)
    \/ GenSteps
    \/ \E i \in Clients : DeleteSession("d1", i)
    \/ DeleteFinish("d1")

SpecStream == InitStream /\ [][NextStream]_vars

\* The event loop runs every task that is ready: a generator that can take a
\* step takes it.
SpecStreamFair == SpecStream /\ WF_vars(GenSteps)

\* ------------------------------------------------------------ C11, C19, C20
\* C11: when a generator's dequeue is the first queue operation after a
\* processed clear_canvas and finds no parameter object, that iteration emits a
\* blank frame and the generator does not end with an error.
C11_BlankAfterClear ==
    \A g \in Gens :
        (/\ gen[g].loop.at \in {"predict", "top", "failed"}
         /\ lastGet.id = gen[g].loop.sid
         /\ lastGet.live /\ lastGet.prev = "clear" /\ lastGet.ret = None)
        => /\ gen[g].loop.at # "failed"
           /\ gen[g].loop.frame = "blank"

\* C19: no generator ends because a predict call raised.
C19_PredictFailureSkipsFrame ==
    \A g \in Gens : gen[g].loop.at = "failed" => gen[g].loop.err # "predict"

\* C20: a running generator whose session is no longer registered eventually
\* terminates.
C20_GeneratorTerminates ==
    \A g \in Gens :
        (gen[g].loop.at \in {"top", "sent", "got", "predict"} /\ gen[g].loop.sid \notin LiveIds)
            ~> (gen[g].loop.at \in {"closed", "failed"})

\* =================================================================== SpecWire
\* receive_message as a function of the message: a client frames a header
\* {"status": s, "params": P} with a payload, as one binary message or as a
\* text message, and the manager decodes what arrived.
Statuses == {"next_frame", "x"}
ParamMaps ==
    UNION {[K -> {JStr(v) : v \in {"x", "u753b", "next_frame"}}] :
               K \in SUBSET {"prompt", "status"}}
Payloads == UNION {[1..n -> {0, 73}] : n \in 0..MaxPayload}

wireFrame == <<svcVars, rx, clock, timeout, input_mode, drain_strategy, max_queue_depth,
               max_queue_size, active_connections, next_qid, ws, sent, handler, gen, deleter,
               conn_manager, hist, lastGet>>

Frame ==
    /\ wire.at = "input"
    /\ wire' = [wire EXCEPT !.at = "framed",
                            !.message = IF wire.form = "binary"
                                        THEN Framed(Header(wire.status, wire.params),
                                                    wire.payload)
                                        ELSE AsText(Header(wire.status, wire.params))]
    /\ UNCHANGED wireFrame

Decode ==
    /\ wire.at = "framed"
    /\ wire' = [wire EXCEPT !.at = "decoded",
                            !.data = receive_message(wire.message).data,
                            !.image = receive_message(wire.message).image]
    /\ UNCHANGED wireFrame

InitWire ==
    /\ InitCommon
    /\ NoOverrides
    /\ ServiceUp
    /\ drain_strategy = "latest"
    /\ max_queue_depth = 1
    /\ max_queue_size = 0
    /\ rx = [w \in Conns |-> IdleRx]
    /\ clock = 0
    /\ timeout = 0
    /\ input_mode = "image"
    /\ \E form \in {"binary", "text"}, status \in Statuses, params \in ParamMaps,
          payload \in Payloads :
          /\ form = "text" => payload = <<>>
          /\ wire = [NoWire EXCEPT !.at = "input", !.form = form, !.status = status,
                                   !.params = params, !.payload = payload]

NextWire ==
    \/ Frame
    \/ Decode

SpecWire == InitWire /\ [][NextWire]_vars

\* ------------------------------------------------------------------ C12
\* C12: a header with a status and a params map, framed with a payload as one
\* binary message, decodes to the header's status together with the keys of
\* params at the top level, and to exactly the payload bytes.
C12_BinaryRoundTrip ==
    (wire.at = "decoded" /\ wire.form = "binary")
    => /\ wire.data = JObj(MapMerge(wire.params, [status |-> JStr(wire.status)]))
       /\ wire.image = wire.payload

\* ------------------------------------------------------------------ C13
\* C13: a decoded header with a params map, binary or text, has every key of
\* params at the top level and the header's own status as its status.
C13_StatusPreserved ==
    wire.at = "decoded"
    => /\ \A k \in DOMAIN wire.params : k \in DOMAIN wire.data.o
       /\ "status" \in DOMAIN wire.data.o
       /\ wire.data.o["status"] = JStr(wire.status)

\* =================================================================== SpecLoop
\* The receive loop of one session, message by message, on an initialized
\* service whose engine takes images or not: the client sends status
\* next_frame with a parameter map and image bytes in one of the three wire
\* forms, sends messages that do not decode, or goes away.
LoopParamMaps ==
    {params \in UNION {[K -> {JStr("x"), JStr("next_frame"), JObj(EmptyMap)}] :
                           K \in (SUBSET {"prompt", "status"}) \ {{}}} :
        /\ "prompt" \in DOMAIN params => params["prompt"] # JStr("next_frame")
        /\ "status" \in DOMAIN params => params["status"].t = "str"}

InitLoop ==
    /\ InitCommon
    /\ NoOverrides
    /\ ServiceUp
    /\ drain_strategy \in {"latest", "all"}
    /\ max_queue_depth = 1
    /\ max_queue_size = 0
    /\ rx = [w \in Conns |-> IdleRx]
    /\ clock = 0
    /\ timeout = 0
    /\ input_mode \in {"image", "video"}
    /\ \E form \in {"binary", "text", "legacy"}, params \in LoopParamMaps,
          payload \in {p \in Payloads : Len(p) <= 1} :
          wire = [NoWire EXCEPT !.at = "input", !.form = form, !.status = "next_frame",
                                !.params = params, !.payload = payload]

\* The loop of one handler reads and writes only its own socket, its own locals
\* and its own session's queue: the specification follows the conversation of
\* one client.
LoopClient == CHOOSE w \in Clients : TRUE

NextLoop ==
    \/ Accept(LoopClient, LoopClient)
    \/ \E w \in Conns : Connect(w)
    \/ \E w \in Conns : EnterLoop(w)
    \/ \E w \in Conns : Send(w)
    \/ \E w \in Conns : SendGarbled(w)
    \/ \E w \in Conns : Hangup(w)
    \/ \E w \in Conns : LoopTop(w)
    \/ \E w \in Conns : Receive(w)
    \/ \E w \in Conns : ReceiveParams(w)
    \/ \E w \in Conns : InvalidParams(w)
    \/ \E w \in Conns : BuildParams(w)
    \/ \E w \in Conns : ReceiveBytes(w)
    \/ \E w \in Conns : LoopFaultFinish(w)
    \/ \E w \in Conns : Finally(w)
    \/ \E w \in Conns : FinallyFinish(w)

SpecLoop == InitLoop /\ [][NextLoop]_vars

\* ------------------------------------------------------------------ C14
\* C14: once the messages of one frame (status next_frame, a valid parameter
\* map, image bytes), sent in any of the three wire forms, were all read and
\* the handler awaits the next message, exactly one parameter object was
\* enqueued: the one built from that parameter map, with that image where the
\* engine takes images.
C14_ThreeFormsEnqueueOnce ==
    \A w \in Conns :
        (/\ handler[w].pc = "loop"
         /\ rx[w].at = "receive"
         /\ rx[w].inbox = <<>>
         /\ ws[w].client_state = "CONNECTED"
         /\ wire.at = "sent"
         /\ wire.n = 1
         /\ wire.payload # <<>>
         /\ Valid(wire.params))
        => rx[w].objs = <<ParameterObject(wire.params, input_mode = "image", wire.payload)>>

\* ------------------------------------------------------------------ C15
\* C15: after a receive that failed (a message that does not decode, or an
\* exception of the transport) the handler is no longer in its loop.
C15_FaultEndsLoop ==
    \A w \in Conns : rx[w].ev \in {"garbled", "fault"} => handler[w].pc # "loop"

\* ------------------------------------------------------------------ C16
\* C16: the step of the loop on a next_frame parameter map that fails
\* validation (a prompt that is not a string) enqueues nothing and leaves the
\* loop for the disconnect; once that disconnect returned, the session is
\* unregistered and its handle closed.
C16_InvalidStep(w) ==
    (/\ handler[w].pc = "loop"
     /\ rx[w].at = "build"
     /\ "prompt" \in DOMAIN rx[w].data
     /\ rx[w].data["prompt"].t # "str"
     /\ (handler'[w] # handler[w] \/ rx'[w].at # rx[w].at))
    => /\ handler'[w].pc \in {"fault_closing", "finally"}
       /\ rx'[w].objs = rx[w].objs
       /\ hist' = hist
       /\ \A i \in Sessions(conn_manager) :
              /\ i \in DOMAIN active_connections'[conn_manager]
              /\ active_connections'[conn_manager][i].queue = active_connections[conn_manager][i].queue

C16_InvalidParamsFailClosed ==
    /\ [][\A w \in Conns : C16_InvalidStep(w)]_vars
    /\ [](\A w \in Conns :
            (/\ handler[w].pc \in {"finally", "final_closing", "done"}
             /\ rx[w].at = "build")
            => /\ ~check_user(conn_manager, handler[w].id)
               /\ ws[w].application_state = "DISCONNECTED")

C16_Witness ==
    \E w \in Conns :
        /\ handler[w].pc = "done"
        /\ rx[w].at = "build"
        /\ "prompt" \in DOMAIN rx[w].data
        /\ rx[w].data["prompt"].t # "str"
        /\ rx[w].objs = <<>>
        /\ ~check_user(conn_manager, handler[w].id)

\* ------------------------------------------------------------------ C17
\* C17: where the engine takes images, the step of the loop in which the
\* follow-up binary read of a next_frame message without inline payload gives
\* no image data from a connected client (an empty binary message, or a
\* message that is not binary) enqueues nothing, sends send_frame and returns
\* to the top of the loop, the session still registered.
C17_NoImageStep(w) ==
    (/\ handler[w].pc = "loop"
     /\ rx[w].at = "bytes"
     /\ input_mode = "image"
     /\ rx'[w].at # rx[w].at
     /\ Inbound(w).kind = "message"
     /\ Inbound(w).message # Disconnect
     /\ (Inbound(w).message.type # "bytes" \/ Inbound(w).message.body = <<>>))
    => /\ handler'[w].pc = "loop"
       /\ rx'[w].at = "top"
       /\ rx'[w].objs = rx[w].objs
       /\ hist' = hist
       /\ active_connections' = active_connections
       /\ check_user(conn_manager, handler[w].id)
       /\ sent'[w] = Append(sent[w], "send_frame")

InitTimeout ==
    /\ InitCommon
    /\ NoOverrides
    /\ ServiceUp
    /\ drain_strategy = "latest"
    /\ max_queue_depth = 1
    /\ max_queue_size = 0
    /\ rx = [w \in Conns |-> IdleRx]
    /\ clock = 0
    /\ timeout \in {0, 2}
    /\ input_mode = "image"
    /\ wire = [NoWire EXCEPT !.at = "input", !.form = "binary", !.status = "next_frame",
                             !.params = [prompt |-> JStr("x")], !.payload = <<73>>]

NextTimeout ==
    \/ \E w \in Clients : Accept(w, w)
    \/ \E w \in Conns : Connect(w)
    \/ \E w \in Conns : EnterLoop(w)
    \/ \E w \in Conns : Send(w)
    \/ Tick
    \/ \E w \in Conns : LoopTop(w)
    \/ \E w \in Conns : Receive(w)
    \/ \E w \in Conns : BuildParams(w)
    \/ \E w \in Conns : TimeoutDisconnect(w)
    \/ \E w \in Conns : LoopFaultFinish(w)
    \/ \E w \in Conns : Finally(w)
    \/ \E w \in Conns : FinallyFinish(w)

SpecTimeout == InitTimeout /\ [][NextTimeout]_vars

\* ------------------------------------------------------------------ C18
\* C18: a session is sent timeout only under a timeout T > 0 and only after a
\* silence of at least T: some two consecutive inbound messages (the entry into
\* the loop counting as the first, the timeout test as the last) were T or more
\* apart.
C18_TimeoutOnlyAfterSilence ==
    \A w \in Conns : rx[w].ev = "timeout" => (timeout > 0 /\ rx[w].gap >= timeout)

\* ------------------------------------------------------------------ C30
\* C30: with a configured max_queue_depth D a session's queue never holds more
\* than D items, and an update_data call that finds D items queued leaves the
\* newest D-1 of them, in their order, followed by the new item.
C30_EnqueueStep(i) ==
    (/\ hist'[i].enq = hist[i].enq + 1
     /\ max_queue_depth # NoDepth
     /\ i \in LiveIds
     /\ Len(QueueOf(i)) = max_queue_depth
     /\ active_connections[conn_manager][i].getters = <<>>) =>
        active_connections'[conn_manager][i].queue =
            Append(SubSeq(QueueOf(i), 2, max_queue_depth), hist'[i].enq)

C30_DepthBounded ==
    /\ [](max_queue_depth # NoDepth =>
             \A m \in Mgrs : \A i \in Sessions(m) :
                Len(active_connections[m][i].queue) <= max_queue_depth)
    /\ [][\A i \in Ids : C30_EnqueueStep(i)]_vars

C30_Witness ==
    /\ max_queue_depth = 2
    /\ 1 \in LiveIds
    /\ QueueOf(1) = <<2, 3>>
    /\ hist[1].enq = 3
    /\ hist[1].deq = 0

\* =================================================================== SpecIso
\* Several sessions on one manager, each connected under its own id: their
\* clients send next_frame and clear_canvas messages, consumers dequeue for any
\* of them, sessions are deleted through the API and handlers end by faults.
InitIso ==
    /\ InitCommon
    /\ NoOverrides
    /\ NoTraffic
    /\ ServiceUp
    /\ drain_strategy \in {"latest", "all"}
    /\ max_queue_depth = 1
    /\ max_queue_size = 0

\* Operations are keyed by one session id: two sessions, A and B, are followed,
\* whose clients send MaxEnq parameter objects between them.
TwoSessions == {1, 2}
TwoSessionsBudget == hist[1].enq + hist[2].enq < MaxEnq

NextIso ==
    \/ \E w \in TwoSessions : Accept(w, w)
    \/ \E w \in Conns : Connect(w)
    \/ \E w \in Conns : EnterLoop(w)
    \/ \E w \in Conns : TwoSessionsBudget /\ NextFrame(w)
    \/ \E w \in Conns : ClearCanvas(w)
    \/ \E i \in TwoSessions : GetLatestData("g1", i, should_block_for_data)
    \/ Resume("g1")
    \/ \E i \in TwoSessions : DeleteSession("d1", i)
    \/ DeleteFinish("d1")
    \/ \E w \in Conns : LoopFault(w)
    \/ \E w \in Conns : LoopFaultFinish(w)
    \/ \E w \in Conns : Finally(w)
    \/ \E w \in Conns : FinallyFinish(w)

SpecIso == InitIso /\ [][NextIso]_vars

\* ------------------------------------------------------------------ C29
\* The session ids a step operates on: those of the handler, consumer and
\* deleter tasks that take the step, and of the queue operations it records.
C29_Touched ==
    ({handler[w].id : w \in {w \in Conns : handler'[w] # handler[w]}}
        \cup {handler'[w].id : w \in {w \in Conns : handler'[w] # handler[w]}}
        \cup {gen[g].id : g \in {g \in Gens : gen'[g] # gen[g]}}
        \cup {gen'[g].id : g \in {g \in Gens : gen'[g] # gen[g]}}
        \cup {deleter[d].id : d \in {d \in Deleters : deleter'[d] # deleter[d]}}
        \cup {deleter'[d].id : d \in {d \in Deleters : deleter'[d] # deleter[d]}}
        \cup {i \in Ids : hist'[i] # hist[i]}
        \cup (IF lastGet' # lastGet THEN {lastGet'.id} ELSE {})) \ {NoId}

\* C29: a step that operates on session A only (enqueue, dequeue, clear,
\* disconnect, a handler ending by an error) leaves every other session B as it
\* was: registered or not, with the same handle in the same state and the same
\* queue contents.
C29_OtherSessionsUnchanged ==
    [][\A b \in Ids \ C29_Touched :
          \A m \in Mgrs :
             /\ (b \in Sessions(m))' = (b \in Sessions(m))
             /\ b \in Sessions(m) =>
                   /\ active_connections'[m][b] = active_connections[m][b]
                   /\ ws'[active_connections[m][b].websocket] =
                          ws[active_connections[m][b].websocket]]_vars

C29_Witness ==
    /\ {1, 2} \subseteq LiveIds
    /\ QueueOf(2) # <<>>
    /\ hist[1].last = "clear"
    /\ hist[1].enq > 0
    /\ \E w \in Conns : handler[w].id = 1 /\ handler[w].pc = "finally"
    /\ lastGet.id = 1

\* =================================================================== SpecCfg
\* One SessionService from its construction, with any base configuration over
\* the keys (its values written 1, so that an override to 2 shows):
\* startup, get_api, shutdown and reload(overrides, persist) are called one
\* after the other with any override map, and the engine constructor may
\* raise. No client is connected, so no operation suspends.
InitCfg ==
    /\ InitCommon
    /\ NoTraffic
    /\ ServiceDown
    /\ drain_strategy = "latest"
    /\ max_queue_depth = 1
    /\ max_queue_size = 0
    /\ config \in {c \in Configs : \A k \in DOMAIN c : c[k] = 1}
    /\ persistent_overrides = EmptyMap
    /\ raises \in SUBSET {"construct"}

NextCfg ==
    \/ \E c \in Callers : startup(c)
    \/ \E c \in Callers : get_api(c)
    \/ \E c \in Callers : shutdown(c)
    \/ \E c \in Callers : \E overrides \in OverrideMaps, persist \in BOOLEAN :
          reload_overrides(c, overrides, persist)

SpecCfg == InitCfg /\ [][NextCfg]_vars

\* A configuration shows the overrides: no key that they map to None, their
\* value for every other key of theirs.
Shows(merged, overrides) ==
    \A k \in DOMAIN overrides :
        IF overrides[k] = None
        THEN k \notin DOMAIN merged
        ELSE k \in DOMAIN merged /\ merged[k] = overrides[k]

\* ------------------------------------------------------------------ C21
\* C21: after a reload(overrides, persist) that returned, with persist true or
\* false, the merged config in effect has no key that overrides maps to None
\* and maps every other key of overrides to the override's value.
C21_OverridesMerged ==
    (lastCall.op = "reload" /\ ~lastCall.raised) => Shows(state.config, lastCall.overrides)

\* ------------------------------------------------------------------ C22
\* A step in which an operation returns having initialized the pipeline.
C22_Initializes ==
    /\ lastCall' # lastCall
    /\ ~lastCall'.raised
    /\ Built(engine') = Built(engine) + 1

\* C22: a reload with persist=False leaves the persistent layer unchanged and
\* its overrides win over the persistent ones in the config of that
\* initialization; an initialization without overrides (a later reload, a lazy
\* get_api or a startup after a shutdown) yields the base config overlaid with
\* the persistent overrides only, and that config shows every override given
\* with persist=True so far.
C22_EphemeralNotRetained ==
    [][/\ (lastCall' # lastCall /\ lastCall'.op = "reload" /\ ~lastCall'.persist) =>
             persistent_overrides' = persistent_overrides
       /\ (C22_Initializes /\ lastCall'.op = "reload" /\ ~lastCall'.persist) =>
             /\ state'.config = apply_overrides(
                                   apply_overrides(config, persistent_overrides),
                                   lastCall'.overrides)
             /\ Shows(state'.config, lastCall'.overrides)
       /\ (C22_Initializes /\ lastCall'.overrides = EmptyMap) =>
             /\ state'.config = apply_overrides(config, persistent_overrides')
             /\ persistent_overrides' = persistent_overrides
             /\ Shows(state'.config, lastCall'.kept)]_vars

\* ------------------------------------------------------------------ C23
\* C23: when an operation (startup, get_api, reload) ends with the engine
\* constructor's exception, the service is uninitialized: the initialized flag
\* is false and no engine handle is held.
C23_FailedInitLeavesUninitialized ==
    lastCall.raised =>
        /\ ~state.initialized
        /\ state.pipeline = None

\* ------------------------------------------------------------------ C26
\* C26: in the teardown of every engine handle the stream's sub-components are
\* deleted before the stream attribute is removed from the pipeline, and the
\* service's reference to the pipeline is dropped last.
C26_ReleaseOrder ==
    \A e \in Mgrs :
        LET r == engine[e].released
        IN /\ \A j \in 1..Len(r) :
                 r[j] = "stream" => \E i \in 1..(j - 1) : r[i] = "components"
           /\ \A j \in 1..Len(r) : r[j] = "pipeline" => j = Len(r)

\* ------------------------------------------------------------------ C27
\* C27: at most one of startup, get_api's initialization, reload and shutdown
\* is in progress at a time: a task suspended inside its block owns the lock,
\* no second task is inside a block, and every step that changes the service's
\* state or begins a teardown while a task is inside its block is a step of
\* that task.
C27_OneAtATime ==
    /\ [](/\ Cardinality({c \in Callers : caller[c].pc = "closing"}) <= 1
          /\ \A c \in Callers : caller[c].pc = "closing" => lock.owner = c)
    /\ [][(\/ <<state, api_pipeline, conn_manager, engine, persistent_overrides>>' #
                 <<state, api_pipeline, conn_manager, engine, persistent_overrides>>
           \/ teardowns' # teardowns) =>
              \A d \in Callers : caller[d].pc = "closing" => caller'[d] # caller[d]]_vars

C27_Witness ==
    \E c, d \in Callers :
        /\ caller[c].pc = "closing"
        /\ caller[c].op = "shutdown"
        /\ lock.owner = c
        /\ caller[d].pc = "waiting"
        /\ caller[d].op \in {"startup", "get_api", "reload"}
        /\ lock.waiters = <<d>>

\* ================================================================== SpecLife
\* A SessionService whose callers run startup, reload and shutdown in an
\* environment whose calls may raise, or not: the engine constructor (once) and
\* the deletion of an engine attribute (any number of times), while a client
\* connects and its handler leaves the loop by a fault. A call
\* that may construct an engine starts only while an engine is left for it, so
\* that every operation that started can run to its end.
InitLife ==
    /\ InitCommon
    /\ NoTraffic
    /\ ServiceDown
    /\ drain_strategy = "latest"
    /\ max_queue_depth = 1
    /\ max_queue_size = 0
    /\ config = BaseConfig
    /\ persistent_overrides = EmptyMap
    /\ raises = {"construct", "release"}

EngineLeft ==
    Built(engine) + Cardinality({c \in Callers : caller[c].pc # "idle" /\
                                                 caller[c].op # "shutdown"}) < MaxEngines

NextLife ==
    \/ \E c \in Callers : EngineLeft /\ startup(c)
    \/ \E c \in Callers : EngineLeft /\ reload(c)
    \/ \E c \in Callers : shutdown(c)
    \/ \E c \in Callers : LockResume(c)
    \/ \E c \in Callers : CloseReturn(c)
    \/ Accept(LoopClient, LoopClient)
    \/ \E w \in Conns : Connect(w)
    \/ \E w \in Conns : EnterLoop(w)
    \/ \E w \in Conns : LoopFault(w)
    \/ \E w \in Conns : LoopFaultFinish(w)

SpecLife == InitLife /\ [][NextLife]_vars

\* The event loop runs every task that is ready: a close() that was awaited
\* returns, and a task woken with the lock runs.
CallerSteps == \E c \in Callers : LockResume(c) \/ CloseReturn(c)

SpecLifeFair == SpecLife /\ WF_vars(CallerSteps)

\* ----------------------------------------------------------------------- C24
\* C24: a shutdown that has started returns, whether or not a disconnect or a
\* release raises on its way; it returns without an exception and leaves the
\* service uninitialized (no engine handle in the state or in the facade, no
\* manager, flag false); and a shutdown of an uninitialized service changes
\* none of the service's objects, sessions or handles.
C24_ShutdownStep ==
    (lastCall' # lastCall /\ lastCall'.op = "shutdown") =>
        /\ ~lastCall'.raised
        /\ ~state'.initialized
        /\ state' = ServiceState
        /\ api_pipeline' = None
        /\ conn_manager' = NoMgr
        /\ ~state.initialized =>
              UNCHANGED <<state, api_pipeline, conn_manager, engine, persistent_overrides,
                          active_connections, ws, teardowns>>

C24_ShutdownCompletes ==
    /\ [][C24_ShutdownStep]_vars
    /\ [](lastCall.op = "shutdown" =>
             (state = ServiceState /\ api_pipeline = None /\ conn_manager = NoMgr))
    /\ \A c \in Callers :
          (caller[c].pc # "idle" /\ caller[c].op = "shutdown") ~> (caller[c].pc = "idle")

\* A shutdown returned from a teardown in which the disconnect of a session
\* raised (the session is still registered in the manager torn down, its handle
\* closed) and the deletion of the stream raised (the handle keeps it).
C24_Witness ==
    /\ lastCall.op = "shutdown"
    /\ lastCall.m # NoMgr
    /\ state = ServiceState
    /\ "release" \in raises
    /\ engine[lastCall.m].stream
    /\ \E r \in lastCall.torn : r.id \in DOMAIN active_connections[lastCall.m]

\* ----------------------------------------------------------------------- C25
\* C25: in any step of a shutdown or reload in which a resource of an engine
\* handle is released, every session that was registered when the operation's
\* teardown started has its handle closed and is gone from the manager torn
\* down (or is being deleted from it by the disconnect that closed it).
C25_Releases(e) == engine[e].built /\ engine'[e] # engine[e]

PairCaller == CHOOSE c \in Callers : \A d \in Callers : c <= d

NextPair ==
    \/ EngineLeft /\ reload(PairCaller)
    \/ shutdown(PairCaller)
    \/ CloseReturn(PairCaller)
    \/ Accept(LoopClient, LoopClient)
    \/ \E w \in Conns : Connect(w)
    \/ \E w \in Conns : EnterLoop(w)
    \/ \E w \in Conns : NextFrame(w)
    \/ stream_endpoint("g1", LoopClient)
    \/ StreamTop("g1")
    \/ StreamGet("g1")
    \/ StreamGot("g1")
    \/ StreamPredict("g1")

SpecPair == InitLife /\ [][NextPair]_vars

\* ----------------------------------------------------------------------- C28
\* C28: in every state, and so at the start of every step of a handler or a
\* generator, the facade's engine handle and manager are both unset, or both
\* set by the same init_api call to an engine that was constructed and the
\* manager built with it.
C28_PairSetTogether ==
    /\ (api_pipeline = None) <=> (conn_manager = NoMgr)
    /\ api_pipeline # None =>
          /\ api_pipeline = conn_manager
          /\ engine[api_pipeline].built

\* A reload is suspended in the close() of a session whose handler is in its
\* loop, and a generator holding a frame is about to test the pipeline.
C28_Witness ==
    /\ \E c \in Callers : caller[c].pc = "closing" /\ caller[c].op = "reload"
    /\ \E w \in Conns : handler[w].pc = "loop"
    /\ gen["g1"].loop.at = "got"
    /\ gen["g1"].ret # None
    /\ api_pipeline # None
    /\ conn_manager = api_pipeline

\* ================================================================== SpecFeed
\* Two streaming generators attached to the session of one client, whose
\* handler enqueues the frames it receives; both drain strategies, with the
\* queue depth of runtime.py and with the default (None).
InitFeed ==
    /\ InitCommon
    /\ NoOverrides
    /\ NoTraffic
    /\ ServiceUp
    /\ drain_strategy \in {"latest", "all"}
    /\ max_queue_depth \in {NoDepth, 1}
    /\ max_queue_size = 0

NextFeed ==
    \/ Accept(LoopClient, LoopClient)
    \/ \E w \in Conns : Connect(w)
    \/ \E w \in Conns : EnterLoop(w)
    \/ \E w \in Conns : NextFrame(w)
    \/ \E g \in Gens : stream_endpoint(g, LoopClient)
    \/ \E g \in Gens : StreamTop(g)
    \/ \E g \in Gens : StreamGet(g)
    \/ \E g \in Gens : Resume(g)
    \/ \E g \in Gens : StreamGot(g)
    \/ \E g \in Gens : StreamPredict(g)

SpecFeed == InitFeed /\ [][NextFeed]_vars

\* ----------------------------------------------------------------------- C31
\* The items of session i that are in its queue, and the item a generator
\* holds between its dequeue and its predict call.
C31_Queued(i) ==
    IF conn_manager # NoMgr /\ i \in Sessions(conn_manager)
    THEN {QueueOf(i)[k] : k \in 1..Len(QueueOf(i))}
    ELSE {}

C31_Holds(g, i) == gen[g].loop.at = "got" /\ gen[g].loop.sid = i /\ gen[g].ret # None

C31_Fed(i) == {hist[i].fed[k] : k \in 1..Len(hist[i].fed)}

\* C31: no parameter object is handed to predict twice; an object returned by
\* a dequeue is held by one generator only, is no longer in the queue and has
\* not been handed to predict before; and no object still queued has been
\* handed to predict.
C31_HandedOnce ==
    \A i \in Ids :
        /\ \A a, b \in 1..Len(hist[i].fed) : a # b => hist[i].fed[a] # hist[i].fed[b]
        /\ C31_Fed(i) \subseteq 1..hist[i].enq
        /\ C31_Queued(i) \cap C31_Fed(i) = {}
        /\ \A g \in Gens : C31_Holds(g, i) =>
              /\ gen[g].ret \notin C31_Queued(i)
              /\ gen[g].ret \notin C31_Fed(i)
              /\ \A h \in Gens \ {g} : C31_Holds(h, i) => gen[h].ret # gen[g].ret

\* Two generators of one session are both inside predict, each with an object
\* of its own, while a third object waits in the queue.
C31_Witness ==
    /\ \A g \in Gens : gen[g].loop.at = "predict" /\ gen[g].loop.sid = 1
    /\ Len(hist[1].fed) = 2
    /\ C31_Queued(1) # {}

\* ----------------------------------------------------------------------- C32
\* C32: when connect returns, the session is registered with the handle and
\* the messages sent on the handle are connected, wait, send_frame, in this
\* order and nothing else; a connect rejected for capacity leaves error as the
\* only message, sent on a handle that was still open and is closed when the
\* connect ends, registers nothing, and no message follows on that handle.
C32_ConnectStep(w) ==
    (handler[w].pc = "accepting" /\ handler'[w].pc # "accepting") =>
        IF handler'[w].pc = "handshake"
        THEN /\ handler[w].id \in DOMAIN active_connections'[handler[w].m]
             /\ active_connections'[handler[w].m][handler[w].id].websocket = w
             /\ sent'[w] = <<"connected", "wait", "send_frame">>
             /\ ws'[w].application_state = "CONNECTED"
        ELSE /\ sent'[w] = <<"error">>
             /\ ws[w].application_state = "CONNECTED"
             /\ ws'[w].application_state = "DISCONNECTED"
             /\ active_connections' = active_connections

C32_HandshakeInOrder ==
    /\ [][\A w \in Conns : C32_ConnectStep(w)]_vars
    /\ [](\A w \in Conns :
            (sent[w] # <<>> /\ Head(sent[w]) = "error") => sent[w] = <<"error">>)

\* One handle was accepted and got the handshake; the other was rejected by the
\* full server, got error and is closed.
C32_Witness ==
    /\ sent[1] = <<"connected", "wait", "send_frame">>
    /\ 1 \in Sessions(1)
    /\ sent[2] = <<"error">>
    /\ ws[2].application_state = "DISCONNECTED"

\* ----------------------------------------------------------------------- C33
\* A step in which the handler of handle w calls disconnect(id) on the manager.
C33_Calls(w) ==
    /\ conn_manager # NoMgr
    /\ \/ handler[w].pc = "loop" /\ handler'[w].pc \in {"fault_closing", "finally"}
       \/ handler[w].pc = "finally" /\ handler'[w].pc \in {"final_closing", "done"}

\* C33: a disconnect(id) call raises no error, whether the id is registered or
\* not and whether its handle is open or closed; it closes a handle that is
\* open and, when it returns, the session and its queue are gone; on an id that
\* is not registered it changes nothing.
C33_DisconnectStep(w) ==
    LET m == conn_manager
        i == handler[w].id
    IN /\ C33_Calls(w) =>
             /\ ~CloseRaises(m, i)
             /\ IF Closes(m, i)
                THEN ws'[get_websocket(m, i)].application_state = "DISCONNECTED"
                ELSE i \notin DOMAIN active_connections'[m]
             /\ i \notin Sessions(m) => UNCHANGED <<active_connections, ws>>
       /\ (handler[w].pc \in {"fault_closing", "final_closing"} /\ handler'[w].pc # handler[w].pc)
             => i \notin DOMAIN active_connections'[handler[w].dm]

C33_DisconnectIdempotent == [][\A w \in Conns : C33_DisconnectStep(w)]_vars

\* ================================================================== SpecGone
\* The handler loop of SpecTimeout with the ways a session ends from outside:
\* its client goes away, or a DELETE request removes it.
NextGone ==
    \/ \E w \in Clients : Accept(w, w)
    \/ \E w \in Conns : Connect(w)
    \/ \E w \in Conns : EnterLoop(w)
    \/ \E w \in Conns : Send(w)
    \/ \E w \in Conns : Hangup(w)
    \/ \E i \in Clients : DeleteSession("d1", i)
    \/ DeleteFinish("d1")
    \/ Tick
    \/ \E w \in Conns : LoopTop(w)
    \/ \E w \in Conns : Receive(w)
    \/ \E w \in Conns : BuildParams(w)
    \/ \E w \in Conns : TimeoutDisconnect(w)
    \/ \E w \in Conns : LoopFaultFinish(w)
    \/ \E w \in Conns : Finally(w)
    \/ \E w \in Conns : FinallyFinish(w)

SpecGone == InitTimeout /\ [][NextGone]_vars

\* The event loop runs every task that can run, and time passes. A handler
\* whose receive_message call can return (a message is there, or there is no
\* handle to read) leaves the call: this is weak fairness of Receive, whose
\* every step ends the call, written on its guard.
HandlerSteps ==
    \E w \in Conns : \/ LoopTop(w) \/ BuildParams(w) \/ TimeoutDisconnect(w)
                     \/ LoopFaultFinish(w) \/ Finally(w) \/ FinallyFinish(w)

Receiving(w) ==
    /\ handler[w].pc = "loop"
    /\ rx[w].at = "receive"
    /\ conn_manager # NoMgr
    /\ Inbound(w).kind # "blocked"

SpecGoneFair ==
    /\ SpecGone
    /\ WF_vars(HandlerSteps)
    /\ WF_vars(DeleteFinish("d1"))
    /\ WF_vars(Tick)
    /\ \A w \in Conns : []<>(~Receiving(w))

\* ----------------------------------------------------------------------- C34
\* The session of the handler of handle w has been removed from the manager,
\* or its client has gone.
C34_Ended(w) ==
    /\ handler[w].pc = "loop"
    /\ \/ ~check_user(conn_manager, handler[w].id)
       \/ ws[w].client_state = "DISCONNECTED"

\* C34: once the session of a handler in its loop is removed or its client is
\* gone, the handler eventually returns and the session is not registered, for
\* timeout = 0 as for timeout > 0.
C34_HandlerTerminates ==
    \A w \in Clients :
        C34_Ended(w) ~> (handler[w].pc = "done" /\ ~check_user(conn_manager, handler[w].id))

\* The handler tasks alone with their clients, which send or stay silent:
\* nobody deletes a session and no client goes away.
SpecTimeoutFair ==
    /\ SpecTimeout
    /\ WF_vars(HandlerSteps)
    /\ WF_vars(Tick)
    /\ \A w \in Conns : []<>(~Receiving(w))

\* ----------------------------------------------------------------------- C35
\* The session of handle w is connected and in its loop, a timeout is
\* configured and no inbound message has arrived for longer than it.
C35_Silent(w) ==
    /\ timeout > 0
    /\ handler[w].pc = "loop"
    /\ check_user(conn_manager, handler[w].id)
    /\ ws[w].client_state = "CONNECTED"
    /\ ws[w].application_state = "CONNECTED"
    /\ rx[w].inbox = <<>>
    /\ clock - rx[w].last_in > timeout

\* C35: a connected session that stays silent for longer than the timeout is
\* eventually sent timeout as its last message, its handle is closed, the
\* session is removed and the handler has returned; and the timeout status is
\* never sent on a handle that was closed before.
C35_TimeoutDelivered ==
    /\ \A w \in Clients :
          C35_Silent(w) ~> \/ /\ sent[w] # <<>>
                              /\ Last(sent[w]) = "timeout"
                              /\ ws[w].application_state = "DISCONNECTED"
                              /\ ~check_user(conn_manager, handler[w].id)
                              /\ handler[w].pc = "done"
                           \/ rx[w].last_in = clock
    /\ [][\A w \in Clients :
            (Len(sent'[w]) > Len(sent[w]) /\ Last(sent'[w]) = "timeout")
                => ws[w].application_state = "CONNECTED"]_vars

\* ----------------------------------------------------------------------- C36
\* The handler's step on a clear_canvas message of session i.
C36_ClearStep(i) ==
    /\ hist'[i].last = "clear"
    /\ hist[i].last # "clear"

UpdateDataCall(i) ==
    /\ conn_manager # NoMgr
    /\ hist[i].enq < MaxEnq
    /\ update_data(conn_manager, i, hist[i].enq + 1)
    /\ hist' = IF check_user(conn_manager, i)
               THEN [hist EXCEPT ![i].enq = @ + 1, ![i].last = "enq"]
               ELSE [hist EXCEPT ![i].last = "enq_absent"]
    /\ UNCHANGED <<svcVars, wireVars, drain_strategy, max_queue_depth, max_queue_size, next_qid, ws, sent,
                   handler, deleter, conn_manager, lastGet>>

NextAbsent ==
    \/ Accept(1, 1)
    \/ Connect(1)
    \/ EnterLoop(1)
    \/ \E i \in Ids : UpdateDataCall(i)
    \/ \E i \in Ids, wait \in BOOLEAN : GetLatestData("g1", i, wait)
    \/ Resume("g1")
    \/ DeleteSession("d1", 1)
    \/ DeleteFinish("d1")

SpecAbsent == InitQueue /\ [][NextAbsent]_vars

\* ----------------------------------------------------------------------- C37
\* C37: an update_data call and a get_latest_data call, waiting or not, for an
\* id that is not registered change nothing in the manager (no session, queue
\* or waiting task), and the get_latest_data call returns None at once instead
\* of suspending.
C37_AbsentIdNoOp ==
    [][/\ \A i \in Ids :
            (i \notin LiveIds /\ hist'[i].last = "enq_absent" /\ hist'[i] # hist[i]) =>
                /\ active_connections' = active_connections
                /\ gen' = gen
                /\ <<drain_strategy, max_queue_depth, next_qid>>' =
                       <<drain_strategy, max_queue_depth, next_qid>>
       /\ (gen["g1"].pc = "idle" /\ lastGet' # lastGet /\ lastGet'.id \notin LiveIds) =>
                /\ active_connections' = active_connections
                /\ lastGet'.ret = None
                /\ gen'["g1"].pc = "idle"
                /\ gen'["g1"].ret = None
                /\ <<drain_strategy, max_queue_depth, next_qid>>' =
                       <<drain_strategy, max_queue_depth, next_qid>>]_vars

\* Both calls were made for id 2, the dequeue waiting, while session 1 holds an
\* item in its queue.
C37_Witness ==
    /\ 1 \in LiveIds
    /\ 2 \notin LiveIds
    /\ QueueOf(1) # <<>>
    /\ hist[2].last = "enq_absent"
    /\ lastGet.id = 2
    /\ lastGet.wait
    /\ ~lastGet.live
    /\ lastGet.ret = None
    /\ gen["g1"].pc = "idle"

\* ----------------------------------------------------------------------- C38
\* The handler of handle w takes a step of its final disconnect.
C38_Ends(w) ==
    /\ handler[w].pc \in {"finally", "final_closing"}
    /\ handler'[w].pc # handler[w].pc

\* C38: the final disconnect of a handler leaves the session of another
\* connection alone: a session registered with another handle stays registered
\* with it, and that handle is not closed.
C38_FinalDisconnectOwnSession ==
    [][\A w \in Conns : \A i \in Ids :
          (/\ C38_Ends(w)
           /\ i \in LiveIds
           /\ active_connections[conn_manager][i].websocket # w) =>
              /\ i \in DOMAIN active_connections'[conn_manager]
              /\ active_connections'[conn_manager][i] = active_connections[conn_manager][i]
              /\ ws'[active_connections[conn_manager][i].websocket] =
                     ws[active_connections[conn_manager][i].websocket]]_vars

\* =================================================================== SpecOrphan
\* Clients connecting around a teardown: one client connects at any time, a
\* second one opens its connection while shutdown_api's loop is suspended in a
\* close(); reload and shutdown are called by one task.
LateClient == CHOOSE w \in Conns : w # LoopClient
TearingDown == \E c \in Callers : caller[c].pc = "closing"

NextOrphan ==
    \/ Accept(LoopClient, LoopClient)
    \/ TearingDown /\ Accept(LateClient, LateClient)
    \/ \E w \in Conns : Connect(w)
    \/ \E w \in Conns : EnterLoop(w)
    \/ \E w \in Conns : Finally(w)
    \/ EngineLeft /\ reload(PairCaller)
    \/ shutdown(PairCaller)
    \/ CloseReturn(PairCaller)

SpecOrphan == InitConn /\ [][NextOrphan]_vars

\* ----------------------------------------------------------------------- C39
\* C39: once a reload or shutdown has completed and none is running, the client
\* that connected during the teardown is not orphaned: if its connect returned
\* and its handle is open, its session is registered in the active manager, and
\* if it is registered in a replaced manager, its handle has been closed.
C39_NoOrphan ==
    (teardowns > 0 /\ \A c \in Callers : caller[c].pc = "idle") =>
        LET w == LateClient
        IN /\ (/\ handler[w].pc \in {"handshake", "loop"}
               /\ ws[w].client_state = "CONNECTED"
               /\ ws[w].application_state = "CONNECTED") =>
                  /\ conn_manager # NoMgr
                  /\ \E i \in Sessions(conn_manager) :
                         active_connections[conn_manager][i].websocket = w
           /\ \A m \in Mgrs \ {conn_manager} : \A i \in Sessions(m) :
                  active_connections[m][i].websocket = w =>
                      ws[w].application_state = "DISCONNECTED"

\* ----------------------------------------------------------------------- C40
\* A step releases a resource of engine handle e.
C40_Releases(e) == Len(engine'[e].released) > Len(engine[e].released)

\* A generator's predict call on engine handle e is running in its thread.
C40_InFlight(e) ==
    \E g \in Gens : gen[g].loop.at = "predict" /\ gen[g].loop.e = e

\* C40: no step of shutdown or reload releases a resource of an engine handle
\* while a generator's predict call on that handle is in flight.
C40_NoReleaseDuringPredict ==
    [][\A e \in Mgrs : C40_Releases(e) => ~C40_InFlight(e)]_vars

====
